---- MODULE Spec2Model ----
(***************************************************************************)
(* golite: B-tree traversal engine (TableSeek, IndexSeek, TableScan) and   *)
(* the Filter combinator, as a state machine over a database file whose    *)
(* pages are given by their parsed cells.                                  *)
(***************************************************************************)
EXTENDS Integers, Sequences, FiniteSets, TLC

\* ------------------------------------------------------------------ bounds
MaxRowId == 4
MaxEntries == 5
MaxKeyVal == 2
MaxTail == 2
MaxBody == 9
MaxSerialType == 17
MaxRecordLen == 2
MaxReads == 6
MaxDepth == 4
MaxCells == 2
MaxCellLen == 10

\* columns of the fixture table test(id, name)
NCols == 2

\* --------------------------------------------------------- page type bytes
PageTypeInteriorIndex == 2
PageTypeInteriorTable == 5
PageTypeLeafIndex == 10
PageTypeLeafTable == 13

\* ----------------------------------------------------------- machine words
\* An int64 or a float64 is its 64-bit pattern, most significant bit first.
Zeros(k) == [i \in 1..k |-> 0]
Ones(k) == [i \in 1..k |-> 1]

\* the k low bits of the natural number n
NatBits(n, k) ==
    [i \in 1..k |-> IF k - i > 30 THEN 0 ELSE (n \div (2 ^ (k - i))) % 2]

\* the natural number written by a short bit sequence
RECURSIVE BitsNat(_)
BitsNat(bs) ==
    IF bs = <<>> THEN 0
    ELSE 2 * BitsNat(SubSeq(bs, 1, Len(bs) - 1)) + bs[Len(bs)]

\* bs + 1, wrapping around
Incr(bs) ==
    LET z == { i \in 1..Len(bs) : bs[i] = 0 }
        t == IF z = {} THEN 0 ELSE CHOOSE i \in z : \A l \in z : l <= i
    IN  [i \in 1..Len(bs) |-> IF i < t THEN bs[i] ELSE IF i = t THEN 1 ELSE 0]

Not(bs) == [i \in 1..Len(bs) |-> 1 - bs[i]]
Neg(bs) == Incr(Not(bs))

\* int64(i) for a small integer i
Int64(i) == IF i >= 0 THEN NatBits(i, 64) ELSE Neg(NatBits(-i, 64))

\* the eight bits of a byte
ByteBits(b) == NatBits(b, 8)

RECURSIVE BytesBits(_)
BytesBits(bytes) ==
    IF bytes = <<>> THEN <<>> ELSE ByteBits(Head(bytes)) \o BytesBits(Tail(bytes))

\* int64(intN(x)): sign extension of a pattern of fewer than 64 bits
SignExtend(bs) == [i \in 1..(64 - Len(bs)) |-> bs[1]] \o bs

\* a < b on bit sequences of one length
bitsLess(a, b) ==
    LET diff == { i \in 1..Len(a) : a[i] # b[i] }
    IN  diff # {} /\ a[CHOOSE i \in diff : \A l \in diff : i <= l] = 0

\* a < b on int64
int64Less(a, b) ==
    IF a[1] # b[1] THEN a[1] = 1 ELSE bitsLess(a, b)

\* A float64 is its sign bit s, its biased exponent e (11 bits) and its 52
\* fraction bits m, written without the trailing zeros.
StripRight(bs) ==
    LET set == { i \in 1..Len(bs) : bs[i] = 1 }
    IN  IF set = {} THEN <<>>
        ELSE SubSeq(bs, 1, CHOOSE i \in set : \A l \in set : l <= i)

F64(s, e, frac) == [s |-> s, e |-> e, m |-> StripRight(frac)]

\* math.Float64frombits
Float64frombits(bits) ==
    F64(bits[1], BitsNat(SubSeq(bits, 2, 12)), SubSeq(bits, 13, 64))

f64IsNaN(x) == x.e = 2047 /\ x.m # <<>>
f64IsZero(x) == x.e = 0 /\ x.m = <<>>

\* a < b on fractions: the first differing bit decides, else the shorter
fracLess(a, b) ==
    LET n == IF Len(a) < Len(b) THEN Len(a) ELSE Len(b)
        diff == { i \in 1..n : a[i] # b[i] }
    IN  IF diff = {} THEN Len(a) < Len(b)
        ELSE a[CHOOSE i \in diff : \A l \in diff : i <= l] = 0

f64MagLess(x, y) == x.e < y.e \/ (x.e = y.e /\ fracLess(x.m, y.m))

\* the Go operator < on float64: false on NaN, -0 = +0
f64Less(x, y) ==
    /\ ~f64IsNaN(x)
    /\ ~f64IsNaN(y)
    /\ ~(f64IsZero(x) /\ f64IsZero(y))
    /\ IF x.s # y.s THEN x.s = 1
       ELSE IF x.s = 0 THEN f64MagLess(x, y)
       ELSE f64MagLess(y, x)

\* the place of the first 1 of a bit sequence that has one
msb(bs) ==
    LET set == { i \in 1..Len(bs) : bs[i] = 1 }
    IN  CHOOSE i \in set : \A l \in set : i <= l

\* |i| for the integer i written in two's complement
magnitude(bits) == IF bits[1] = 1 THEN Neg(bits) ELSE bits

\* round to nearest, ties to even: the 53rd digit after the leading one is 1
\* and either a later digit or the 52nd is 1
roundsUp(sig) ==
    sig[53] = 1 /\ (sig[52] = 1 \/ \E l \in 54..Len(sig) : sig[l] = 1)

\* the float64 nearest to the number of sign s whose leading binary digit has
\* exponent p and is followed by the more than 52 digits sig
rounded(s, p, sig) ==
    IF ~roundsUp(sig) THEN F64(s, 1023 + p, SubSeq(sig, 1, 52))
    ELSE IF SubSeq(sig, 1, 52) = Ones(52) THEN F64(s, 1024 + p, <<>>)
    ELSE F64(s, 1023 + p, Incr(SubSeq(sig, 1, 52)))

\* the float64 of sign s for the magnitude mag whose first 1 is at place j
fromMagnitude(s, mag, j) ==
    IF Len(mag) - j <= 52
    THEN F64(s, 1023 + Len(mag) - j, SubSeq(mag, j + 1, Len(mag)))
    ELSE rounded(s, Len(mag) - j, SubSeq(mag, j + 1, Len(mag)))

\* float64(i) for the integer i written in two's complement on at most 64
\* bits: exact up to 53 significant bits, rounded beyond
Float64FromInt(bits) ==
    IF bits = Zeros(Len(bits)) THEN F64(0, 0, <<>>)
    ELSE fromMagnitude(bits[1], magnitude(bits), msb(magnitude(bits)))

\* ------------------------------------------------------------------ values
\* A Value (Go `any` holding NullType, int64, float64, string or []byte) is
\* a tagged record; n carries the 64 bits of a number, written without the
\* leading repetitions of the first bit, b the bytes of a text or blob.
Strip(bits) ==
    LET diff == { i \in 1..Len(bits) : bits[i] # bits[1] }
        j == IF diff = {} THEN Len(bits) + 1
             ELSE CHOOSE i \in diff : \A l \in diff : i <= l
    IN  SubSeq(bits, j - 1, Len(bits))

Word(v) == SignExtend(v.n)

SQLNull == [tag |-> "null", n |-> <<>>, b |-> <<>>]
Int64V(bits) == [tag |-> "int", n |-> Strip(bits), b |-> <<>>]
FloatV(bits) == [tag |-> "float", n |-> Strip(bits), b |-> <<>>]
TextV(bytes) == [tag |-> "text", n |-> <<>>, b |-> bytes]
BlobV(bytes) == [tag |-> "blob", n |-> <<>>, b |-> bytes]

\* the int64 values stored in the tables and indexes of the model
SmallInts == [i \in 0..(10 * (MaxRowId + 1) + NCols) |-> Int64V(Int64(i))]
IntV(i) == SmallInts[i]

getTypeRank(v) ==
    CASE v.tag = "null" -> 0
      [] v.tag \in {"int", "float"} -> 1
      [] v.tag = "text" -> 2
      [] v.tag = "blob" -> 3
      [] OTHER -> 4

toFloat64(v) ==
    IF v.tag = "int" THEN Float64FromInt(v.n) ELSE Float64frombits(Word(v))

\* strings.Compare / bytes.Compare: byte-lexicographic, shorter prefix first.
RECURSIVE bytesCompare(_, _)
bytesCompare(a, b) ==
    IF a = <<>> /\ b = <<>> THEN 0
    ELSE IF a = <<>> THEN -1
    ELSE IF b = <<>> THEN 1
    ELSE IF Head(a) < Head(b) THEN -1
    ELSE IF Head(a) > Head(b) THEN 1
    ELSE bytesCompare(Tail(a), Tail(b))

compareValues(a, b) ==
    LET rankA == getTypeRank(a)
        rankB == getTypeRank(b)
    IN  IF rankA # rankB THEN (IF rankA < rankB THEN -1 ELSE 1)
        ELSE CASE rankA = 0 -> 0
               [] rankA = 1 -> LET fA == toFloat64(a)
                                   fB == toFloat64(b)
                               IN  IF f64Less(fA, fB) THEN -1
                                   ELSE IF f64Less(fB, fA) THEN 1
                                   ELSE 0
               [] rankA \in {2, 3} -> bytesCompare(a.b, b.b)
               [] OTHER -> 0

RECURSIVE CompareFrom(_, _, _, _)
CompareFrom(a, b, i, minLen) ==
    IF i > minLen THEN 0
    ELSE LET cmp == compareValues(a[i], b[i])
         IN  IF cmp # 0 THEN cmp ELSE CompareFrom(a, b, i + 1, minLen)

CompareRecords(a, b) ==
    LET minLen == IF Len(b) < Len(a) THEN Len(b) ELSE Len(a)
        cmp == CompareFrom(a, b, 1, minLen)
    IN  IF cmp # 0 THEN cmp
        ELSE IF Len(a) < Len(b) THEN -1
        ELSE IF Len(a) > Len(b) THEN 1
        ELSE 0

\* ------------------------------------------------------------------ varint
\* data[i] for the 0-based index i; -1 stands for the index-out-of-range panic
byteAt(data, i) == IF i < Len(data) THEN data[i + 1] ELSE -1

\* the loop reads the ninth byte like the first eight: seven bits of it
RECURSIVE readVarintLoopSevenBitNinth(_, _, _, _)
readVarintLoopSevenBitNinth(data, i, value, bytesRead) ==
    IF i >= 9 \/ i >= Len(data)
    THEN [value |-> value, n |-> bytesRead, panic |-> FALSE]
    ELSE LET b == byteAt(data, i)
             v == SubSeq(value, 8, 64) \o SubSeq(ByteBits(b), 2, 8)
         IN  IF b < 128
             THEN [value |-> v, n |-> bytesRead + 1, panic |-> FALSE]
             ELSE readVarintLoopSevenBitNinth(data, i + 1, v, bytesRead + 1)

\* the loop without its test of i against len(data)
RECURSIVE readVarintLoopUnguarded(_, _, _, _)
readVarintLoopUnguarded(data, i, value, bytesRead) ==
    IF i >= 9
    THEN [value |-> value, n |-> bytesRead, panic |-> FALSE]
    ELSE LET b == byteAt(data, i)
         IN  IF b = -1
             THEN [value |-> value, n |-> bytesRead + 1, panic |-> TRUE]
             ELSE IF i = 8
             THEN [value |-> SubSeq(value, 9, 64) \o ByteBits(b),
                   n |-> bytesRead + 1, panic |-> FALSE]
             ELSE LET v == SubSeq(value, 8, 64) \o SubSeq(ByteBits(b), 2, 8)
                  IN  IF b < 128
                      THEN [value |-> v, n |-> bytesRead + 1, panic |-> FALSE]
                      ELSE readVarintLoopUnguarded(data, i + 1, v, bytesRead + 1)

\* for i := 0; i < 9; i++ { ... }: value << 7 drops the seven high bits and
\* the low seven bits of b are or-ed into the freed places (value << 8 and all
\* of b at i = 8).  n counts the bytes read.
RECURSIVE readVarintLoop(_, _, _, _)
readVarintLoop(data, i, value, bytesRead) ==
    IF i >= 9 \/ i >= Len(data)
    THEN [value |-> value, n |-> bytesRead, panic |-> FALSE]
    ELSE LET b == byteAt(data, i)
         IN  IF b = -1
             THEN [value |-> value, n |-> bytesRead + 1, panic |-> TRUE]
             ELSE IF i = 8
             THEN [value |-> SubSeq(value, 9, 64) \o ByteBits(b),
                   n |-> bytesRead + 1, panic |-> FALSE]
             ELSE LET v == SubSeq(value, 8, 64) \o SubSeq(ByteBits(b), 2, 8)
                  IN  IF b < 128
                      THEN [value |-> v, n |-> bytesRead + 1, panic |-> FALSE]
                      ELSE readVarintLoop(data, i + 1, v, bytesRead + 1)

readVarint(data) == readVarintLoop(data, 0, Zeros(64), 0)

\* int(x) for an int64 x, as far as the model compares it with lengths: every
\* negative x is -1, every x of 2^30 or more is 2^30
int(x) ==
    IF x[1] = 1 THEN -1
    ELSE IF SubSeq(x, 1, 34) # Zeros(34) THEN 2 ^ 30
    ELSE BitsNat(SubSeq(x, 35, 64))

\* ------------------------------------------------------ serialTypeToValue
\* the Go nil value returned beside an error
Nil == [tag |-> "nil", n |-> <<>>, b |-> <<>>]

decoded(value, n) == [value |-> value, n |-> n, err |-> "none"]
failed(e) == [value |-> Nil, n |-> 0, err |-> e]

\* case 3: b := make([]byte, 4); b[0] = 0xff when body[0] has its high bit
\* set; copy(b[1:], body[:3]); int64(int32(Uint32(b)))
int24(body) ==
    SignExtend((IF body[1] >= 128 THEN Ones(8) ELSE Zeros(8))
               \o BytesBits(SubSeq(body, 1, 3)))

\* the 48-bit case without the 0xff fill of the two high bytes
int48ZeroFill(body) == Zeros(16) \o BytesBits(SubSeq(body, 1, 6))

\* case 5: b := make([]byte, 8); b[0], b[1] = 0xff, 0xff when body[0] has its
\* high bit set; copy(b[2:], body[:6]); int64(Uint64(b))
int48(body) ==
    (IF body[1] >= 128 THEN Ones(16) ELSE Zeros(16))
    \o BytesBits(SubSeq(body, 1, 6))

\* serialType is an int64, body the bytes from the column's offset on
serialTypeToValue(serialType, body) ==
    LET st == int(serialType)
        odd == serialType[64] = 1
    IN  IF st >= 12 /\ ~odd
        THEN LET length == (st - 12) \div 2
             IN  IF Len(body) < length THEN failed("insufficient")
                 ELSE decoded(BlobV(SubSeq(body, 1, length)), length)
        ELSE IF st >= 13 /\ odd
        THEN LET length == (st - 13) \div 2
             IN  IF Len(body) < length THEN failed("insufficient")
                 ELSE decoded(TextV(SubSeq(body, 1, length)), length)
        ELSE CASE st = 0 -> decoded(SQLNull, 0)
               [] st = 1 -> IF Len(body) < 1 THEN failed("insufficient")
                            ELSE decoded(Int64V(SignExtend(ByteBits(body[1]))), 1)
               [] st = 2 -> IF Len(body) < 2 THEN failed("insufficient")
                            ELSE decoded(Int64V(SignExtend(
                                     BytesBits(SubSeq(body, 1, 2)))), 2)
               [] st = 3 -> IF Len(body) < 3 THEN failed("insufficient")
                            ELSE decoded(Int64V(int24(body)), 3)
               [] st = 4 -> IF Len(body) < 4 THEN failed("insufficient")
                            ELSE decoded(Int64V(SignExtend(
                                     BytesBits(SubSeq(body, 1, 4)))), 4)
               [] st = 5 -> IF Len(body) < 6 THEN failed("insufficient")
                            ELSE decoded(Int64V(int48(body)), 6)
               [] st = 6 -> IF Len(body) < 8 THEN failed("insufficient")
                            ELSE decoded(Int64V(BytesBits(SubSeq(body, 1, 8))), 8)
               [] st = 7 -> IF Len(body) < 8 THEN failed("insufficient")
                            ELSE decoded(FloatV(BytesBits(SubSeq(body, 1, 8))), 8)
               [] st = 8 -> decoded(Int64V(Int64(0)), 0)
               [] st = 9 -> decoded(Int64V(Int64(1)), 0)
               [] OTHER -> failed("unsupported")

\* ------------------------------------------------------------ ParseRecord
\* for bytesRead < len(header) { st, m := readVarint(header[bytesRead:]) ... }
RECURSIVE serialTypesLoop(_, _, _)
serialTypesLoop(header, bytesRead, serialTypes) ==
    IF bytesRead < Len(header)
    THEN LET r == readVarint(SubSeq(header, bytesRead + 1, Len(header)))
         IN  serialTypesLoop(header, bytesRead + r.n, Append(serialTypes, r.value))
    ELSE serialTypes

parsed(record) == [record |-> record, nil |-> FALSE, err |-> "none", col |-> -1]
rejected(e, col) == [record |-> <<>>, nil |-> TRUE, err |-> e, col |-> col]

\* the header test refuses a header that fills the whole payload
headerTooLargeInclusive(headerSize, data) == int(headerSize) >= Len(data)

\* if int(headerSize) > len(data)
headerTooLarge(headerSize, data) == int(headerSize) > Len(data)

\* every column is decoded at the start of the body
bodyOffsetStuck(bodyOffset, bytesConsumed) == bodyOffset

\* bodyOffset += bytesConsumed
nextBodyOffset(bodyOffset, bytesConsumed) == bodyOffset + bytesConsumed

\* for i, st := range serialTypes { ... }; i is 0-based
RECURSIVE columnsLoop(_, _, _, _, _)
columnsLoop(serialTypes, body, i, bodyOffset, record) ==
    IF i >= Len(serialTypes) THEN parsed(record)
    ELSE LET r == serialTypeToValue(serialTypes[i + 1],
                                    SubSeq(body, bodyOffset + 1, Len(body)))
         IN  IF r.err # "none" THEN rejected("column", i)
             ELSE IF bodyOffset + r.n > Len(body) THEN rejected("beyond", i)
             ELSE columnsLoop(serialTypes, body, i + 1,
                              nextBodyOffset(bodyOffset, r.n),
                              Append(record, r.value))

\* data[n:headerSize] panics when headerSize < n (a header size of 0 after a
\* varint of one byte, or a negative header size)
ParseRecord(data) ==
    LET hv == readVarint(data)
        headerSize == int(hv.value)
    IN  IF headerTooLarge(hv.value, data) THEN rejected("header", -1)
        ELSE IF headerSize < hv.n THEN rejected("panic", -1)
        ELSE LET header == SubSeq(data, hv.n + 1, headerSize)
                 body == SubSeq(data, headerSize + 1, Len(data))
                 serialTypes == serialTypesLoop(header, 0, <<>>)
             IN  columnsLoop(serialTypes, body, 0, 0, <<>>)

\* ------------------------------------------------------------- ParseHeader
HeaderSize == 100

\* "SQLite format 3\x00"
HeaderString == <<83, 81, 76, 105, 116, 101, 32, 102, 111, 114, 109, 97, 116,
                  32, 51, 0>>

\* binary.BigEndian.Uint16(data[at:at+2]), at 0-based
Uint16(data, at) == 256 * data[at + 1] + data[at + 2]

\* the size test lets longer inputs through
headerSizeWrongShortOnly(data) == Len(data) < HeaderSize

\* if len(data) != HeaderSize
headerSizeWrong(data) == Len(data) # HeaderSize

\* only PageSize is kept of the fields of Header
ParseHeader(data) ==
    IF headerSizeWrong(data) THEN [nil |-> TRUE, err |-> "size", PageSize |-> 0]
    ELSE IF SubSeq(data, 1, 16) # HeaderString
    THEN [nil |-> TRUE, err |-> "magic", PageSize |-> 0]
    ELSE [nil |-> FALSE, err |-> "none", PageSize |-> Uint16(data, 16)]

\* Open on a file with the given bytes: ReadAt of HeaderSize bytes at offset 0
\* fails on a shorter file; closed tells whether file.Close() was called
Open(file) ==
    IF Len(file) < HeaderSize
    THEN [nil |-> TRUE, err |-> "read", closed |-> TRUE, PageSize |-> 0]
    ELSE LET h == ParseHeader(SubSeq(file, 1, HeaderSize))
         IN  IF h.err # "none"
             THEN [nil |-> TRUE, err |-> "parse", closed |-> TRUE, PageSize |-> 0]
             ELSE [nil |-> FALSE, err |-> "none", closed |-> FALSE,
                   PageSize |-> h.PageSize]

\* ReadPage on the byte level: the length of the buffer handed to ReadAt and
\* the file offset, from the handle's Header.PageSize
ReadPageAt(PageSize, n) ==
    [length |-> PageSize, offset |-> (n - 1) * PageSize]

\* sort.Search(n, f): f is given as the sequence of its outcomes on 0..n-1
\* ("true", "false", or "panic" when evaluating f at that index panics).
\* The result is the 0-based index, or -1 when a probed index panicked.
RECURSIVE SearchLoop(_, _, _)
SearchLoop(f, i, j) ==
    IF i < j
    THEN LET h == (i + j) \div 2
         IN  IF f[h + 1] = "panic" THEN -1
             ELSE IF f[h + 1] = "false" THEN SearchLoop(f, h + 1, j)
             ELSE SearchLoop(f, i, h)
    ELSE i

sortSearch(f) == SearchLoop(f, 0, Len(f))

\* ------------------------------------------------------------------- pages
Page(type, right, leaf, interior, leafIdx, interiorIdx) ==
    [Type |-> type, RightMostPtr |-> right, LeafCells |-> leaf,
     InteriorCells |-> interior, LeafIndexCells |-> leafIdx,
     InteriorIndexCells |-> interiorIdx]

LeafTablePage(cells) == Page(PageTypeLeafTable, 0, cells, <<>>, <<>>, <<>>)
InteriorTablePage(cells, right) ==
    Page(PageTypeInteriorTable, right, <<>>, cells, <<>>, <<>>)
LeafIndexPage(cells) == Page(PageTypeLeafIndex, 0, <<>>, <<>>, cells, <<>>)
InteriorIndexPage(cells, right) ==
    Page(PageTypeInteriorIndex, right, <<>>, <<>>, <<>>, cells)
\* a page whose first byte is none of the four B-tree kinds (a zeroed page)
ZeroPage == Page(0, 0, <<>>, <<>>, <<>>, <<>>)

\* the pages an interior page of either tree points to
ChildrenOf(pg) ==
    IF pg.Type \in {PageTypeInteriorTable, PageTypeInteriorIndex}
    THEN {pg.RightMostPtr}
         \cup { pg.InteriorCells[i].LeftChildPageNum : i \in 1..Len(pg.InteriorCells) }
         \cup { pg.InteriorIndexCells[i].LeftChildPageNum :
                  i \in 1..Len(pg.InteriorIndexCells) }
    ELSE {}

\* ---------------------------------------------------------------- ParsePage
\* binary.BigEndian.Uint32(data[at:at+4])
Uint32(data, at) ==
    ((256 * data[at + 1] + data[at + 2]) * 256 + data[at + 3]) * 256 + data[at + 4]

\* data[from:]
From(data, from) == SubSeq(data, from + 1, Len(data))

\* every page kind is taken to have the header of a leaf
pageHeaderSizeEight(type) == 8

\* headerSize := 8, and 12 for the interior kinds
pageHeaderSize(type) ==
    IF type = PageTypeInteriorIndex \/ type = PageTypeInteriorTable THEN 12 ELSE 8

\* what parsing one cell comes to
cellOk(c) == [st |-> "ok", cell |-> c]
cellPanic == [st |-> "panic", cell |-> <<>>]
cellError == [st |-> "error", cell |-> <<>>]

\* a leaf table cell: varint payload size, varint rowID, payload.  The slice
\* expressions data[cellOffset:] and cellData[payloadOffset:payloadOffset+size]
\* panic when they leave the page; PayloadSize is not kept, RowID is kept as
\* int(rowID)
leafTableCell(data, cellOffset) ==
    IF cellOffset > Len(data) THEN cellPanic
    ELSE LET cellData == From(data, cellOffset)
             pv == readVarint(cellData)
             rv == readVarint(From(cellData, pv.n))
             payloadOffset == pv.n + rv.n
             size == int(pv.value)
         IN  IF size < 0 \/ payloadOffset + size > Len(cellData) THEN cellPanic
             ELSE LET r == ParseRecord(SubSeq(cellData, payloadOffset + 1,
                                              payloadOffset + size))
                  IN  IF r.err = "panic" THEN cellPanic
                      ELSE IF r.err # "none" THEN cellError
                      ELSE cellOk([RowID |-> int(rv.value), Record |-> r.record])

\* an interior table cell: left child on four bytes, varint key
interiorTableCell(data, cellOffset) ==
    IF cellOffset + 4 > Len(data) THEN cellPanic
    ELSE cellOk([LeftChildPageNum |-> Uint32(data, cellOffset),
                 Key |-> int(readVarint(From(data, cellOffset + 4)).value)])

\* an index cell: a left child on four bytes in an interior page, then varint
\* payload size and the payload, a record; a cell that leaves the page is
\* rejected
indexCell(data, cellOffset, interior) ==
    LET at == IF interior THEN cellOffset + 4 ELSE cellOffset
    IN  IF at > Len(data) THEN cellError
        ELSE LET pv == readVarint(From(data, at))
                 size == int(pv.value)
             IN  IF size < 0 \/ at + pv.n + size > Len(data) THEN cellError
                 ELSE LET r == ParseRecord(SubSeq(data, at + pv.n + 1,
                                                  at + pv.n + size))
                      IN  IF r.err = "panic" THEN cellPanic
                          ELSE IF r.err # "none" THEN cellError
                          ELSE IF interior
                          THEN cellOk([LeftChildPageNum |-> Uint32(data, cellOffset),
                                       Payload |-> r.record])
                          ELSE cellOk([Payload |-> r.record])

\* the cell at cellOffset of a page of the given kind
parseCell(data, type, cellOffset) ==
    CASE type = PageTypeLeafTable -> leafTableCell(data, cellOffset)
      [] type = PageTypeInteriorTable -> interiorTableCell(data, cellOffset)
      [] type = PageTypeLeafIndex -> indexCell(data, cellOffset, FALSE)
      [] OTHER -> indexCell(data, cellOffset, TRUE)

pageParsed(page) == [panic |-> FALSE, err |-> "none", page |-> page]
pagePanic == [panic |-> TRUE, err |-> "none", page |-> <<>>]
pageError == [panic |-> FALSE, err |-> "cell", page |-> <<>>]

\* the switch on the page type: the cells in the order of the pointers; the
\* first cell that fails ends the parsing
parseCells(data, type, right, pointers) ==
    LET kinds == {PageTypeLeafTable, PageTypeInteriorTable, PageTypeLeafIndex,
                  PageTypeInteriorIndex}
        n == IF type \in kinds THEN Len(pointers) ELSE 0
        cells == [i \in 1..n |-> parseCell(data, type, pointers[i])]
        bad == { i \in 1..n : cells[i].st # "ok" }
        of(t) == IF type = t THEN [i \in 1..n |-> cells[i].cell] ELSE <<>>
    IN  IF bad # {}
        THEN IF cells[CHOOSE i \in bad : \A l \in bad : i <= l].st = "panic"
             THEN pagePanic ELSE pageError
        ELSE pageParsed([Type |-> type, CellCount |-> Len(pointers),
                         RightMostPtr |-> right, CellPointers |-> pointers,
                         LeafCells |-> of(PageTypeLeafTable),
                         InteriorCells |-> of(PageTypeInteriorTable),
                         LeafIndexCells |-> of(PageTypeLeafIndex),
                         InteriorIndexCells |-> of(PageTypeInteriorIndex)])

\* ParsePage(data, pageNum): the header at offset, the pointer array after it,
\* then the cells.  Freeblock, CellContent, Fragmented and RawData are not kept.
ParsePage(data, pageNum) ==
    LET offset == IF pageNum = 1 THEN HeaderSize ELSE 0
    IN  IF offset + 8 > Len(data) THEN pagePanic
        ELSE LET type == data[offset + 1]
                 cellCount == Uint16(data, offset + 3)
                 headerSize == pageHeaderSize(type)
                 cellPointerStart == offset + headerSize
             IN  IF headerSize = 12 /\ offset + 12 > Len(data) THEN pagePanic
                 ELSE IF cellPointerStart + 2 * cellCount > Len(data) THEN pagePanic
                 ELSE parseCells(data, type,
                                 IF headerSize = 12 THEN Uint32(data, offset + 8) ELSE 0,
                                 [i \in 1..cellCount |->
                                     Uint16(data, cellPointerStart + 2 * (i - 1))])

\* --------------------------------------------------------- database files
\* A database file is a function from page numbers to parsed pages; reading
\* a page number outside its domain fails (ReadAt past the end of the file).
RowIds == 1..MaxRowId
KeyVals == 1..MaxKeyVal

RECURSIVE SortedSeq(_)
SortedSeq(S) ==
    IF S = {} THEN <<>>
    ELSE LET m == CHOOSE x \in S : \A y \in S : x <= y
         IN  <<m>> \o SortedSeq(S \ {m})

\* The record stored in the leaf cell of row r of a table whose rowid alias
\* column is k (-1: none): the alias column is stored as NULL.
StoredRecord(r, k) ==
    [c \in 1..NCols |-> IF c - 1 = k THEN SQLNull ELSE IntV(10 * r + c)]

LeafCell(r, k) == [RowID |-> r, Record |-> StoredRecord(r, k)]
InteriorCell(left, keyv) == [LeftChildPageNum |-> left, Key |-> keyv]

\* leaf page holding the rows of S with lo < rowId <= hi, ascending
RowsLeaf(S, lo, hi, k) ==
    LET rs == SortedSeq({r \in S : lo < r /\ r <= hi})
    IN  LeafTablePage([i \in 1..Len(rs) |-> LeafCell(rs[i], k)])

TableLeafDbs(k) ==
    { (2 :> RowsLeaf(S, 0, MaxRowId, k)) : S \in SUBSET RowIds }

TableFlat2Dbs(k) ==
    { (2 :> InteriorTablePage(<<InteriorCell(3, k1)>>, 4))
      @@ (3 :> RowsLeaf(S, 0, k1, k))
      @@ (4 :> RowsLeaf(S, k1, MaxRowId, k)) :
      S \in SUBSET RowIds, k1 \in RowIds }

TableFlat3Dbs(k) ==
    { (2 :> InteriorTablePage(<<InteriorCell(3, ks[1]), InteriorCell(4, ks[2])>>, 5))
      @@ (3 :> RowsLeaf(S, 0, ks[1], k))
      @@ (4 :> RowsLeaf(S, ks[1], ks[2], k))
      @@ (5 :> RowsLeaf(S, ks[2], MaxRowId, k)) :
      S \in SUBSET RowIds,
      ks \in {p \in RowIds \X RowIds : p[1] < p[2]} }

TableDeepDbs(k) ==
    { (2 :> InteriorTablePage(<<InteriorCell(3, ks[2])>>, 4))
      @@ (3 :> InteriorTablePage(<<InteriorCell(5, ks[1])>>, 6))
      @@ (4 :> RowsLeaf(S, ks[2], MaxRowId, k))
      @@ (5 :> RowsLeaf(S, 0, ks[1], k))
      @@ (6 :> RowsLeaf(S, ks[1], ks[2], k)) :
      S \in SUBSET RowIds,
      ks \in {p \in RowIds \X RowIds : p[1] < p[2]} }

\* below an interior page no leaf is empty (the B-tree is kept balanced)
NoEmptyLeaf(d) ==
    \A p \in DOMAIN d \ {2} :
        /\ d[p].Type = PageTypeLeafTable => d[p].LeafCells # <<>>
        /\ d[p].Type = PageTypeLeafIndex => d[p].LeafIndexCells # <<>>

ValidTableDbs(k) ==
    { d \in TableLeafDbs(k) \cup TableFlat2Dbs(k) \cup TableFlat3Dbs(k)
             \cup TableDeepDbs(k) : NoEmptyLeaf(d) }

\* Corrupt files: one page zeroed, or every pointer to one page redirected
\* to a page number past the end of the file.
Redirect(cells, p, q) ==
    [i \in 1..Len(cells) |->
        IF cells[i].LeftChildPageNum = p
        THEN [cells[i] EXCEPT !.LeftChildPageNum = q]
        ELSE cells[i]]

RedirectPage(pg, p, q) ==
    [pg EXCEPT !.RightMostPtr = IF pg.RightMostPtr = p THEN q ELSE pg.RightMostPtr,
               !.InteriorCells = Redirect(pg.InteriorCells, p, q),
               !.InteriorIndexCells = Redirect(pg.InteriorIndexCells, p, q)]

ZeroedAt(d, p) == [d EXCEPT ![p] = ZeroPage]

\* a page of the other tree's kind in the place of pg, with as many cells and
\* the same child pointers: what ParsePage returns when the first byte of a
\* table page is an index kind, or the reverse
OtherKind(pg) ==
    IF pg.Type = PageTypeLeafTable
    THEN LeafIndexPage([i \in 1..Len(pg.LeafCells) |->
             [Payload |-> <<IntV(1), IntV(pg.LeafCells[i].RowID)>>]])
    ELSE IF pg.Type = PageTypeInteriorTable
    THEN InteriorIndexPage([i \in 1..Len(pg.InteriorCells) |->
             [LeftChildPageNum |-> pg.InteriorCells[i].LeftChildPageNum,
              Payload |-> <<IntV(1), IntV(pg.InteriorCells[i].Key)>>]],
             pg.RightMostPtr)
    ELSE IF pg.Type = PageTypeLeafIndex
    THEN LeafTablePage([i \in 1..Len(pg.LeafIndexCells) |->
             [RowID |-> i, Record |-> pg.LeafIndexCells[i].Payload]])
    ELSE InteriorTablePage([i \in 1..Len(pg.InteriorIndexCells) |->
             [LeftChildPageNum |-> pg.InteriorIndexCells[i].LeftChildPageNum,
              Key |-> i]],
             pg.RightMostPtr)

OtherKindAt(d, p) == [d EXCEPT ![p] = OtherKind(d[p])]
PastEndAt(d, p) == [n \in DOMAIN d |-> RedirectPage(d[n], p, 2 + Cardinality(DOMAIN d))]

CorruptionsOf(d) ==
    { ZeroedAt(d, p) : p \in DOMAIN d }
    \cup { OtherKindAt(d, p) : p \in DOMAIN d }
    \cup { PastEndAt(d, p) : p \in DOMAIN d \ {2} }

\* the corrupt files are made from the valid files that hold every row
AllRows(d, n) ==
    Cardinality({ x \in (DOMAIN d) \X (1..n) :
                    x[2] <= Len(d[x[1]].LeafCells) + Len(d[x[1]].LeafIndexCells)
                              + Len(d[x[1]].InteriorIndexCells) }) = n

\* the pages below page q, following child pointers at most fuel times
RECURSIVE Below(_, _, _)
Below(d, q, fuel) ==
    IF fuel = 0 \/ q \notin DOMAIN d THEN {}
    ELSE ChildrenOf(d[q])
         \cup UNION { Below(d, c, fuel - 1) : c \in ChildrenOf(d[q]) }

\* Corrupt files with a cycle: the pointer to a page p leads to an ancestor q
\* of p instead (to the page that holds the pointer when q is p's parent).
CyclicOf(d) ==
    { [n \in DOMAIN d |-> RedirectPage(d[n], x[1], x[2])] :
        x \in { y \in (DOMAIN d) \X (DOMAIN d) :
                  y[1] \in Below(d, y[2], Cardinality(DOMAIN d)) } }

CorruptTableDbs(k) ==
    UNION { CorruptionsOf(d) : d \in {v \in ValidTableDbs(k) : AllRows(v, MaxRowId)} }

TableDbs(k) == ValidTableDbs(k) \cup CorruptTableDbs(k)

\* Index on one column: an entry is <<key value, rowId>>; the rows 1..n have
\* one entry each, key values not decreasing with the rowId, so the entries
\* are ascending under CompareRecords; interior cells hold entries of their
\* own.
Entry(v, r) == <<IntV(v), IntV(r)>>
IndexCell(e) == [Payload |-> e]
InteriorIndexCell(left, e) == [LeftChildPageNum |-> left, Payload |-> e]

EntrySeqs ==
    UNION { { [i \in 1..n |-> Entry(f[i], i)] :
                f \in { g \in [1..n -> KeyVals] :
                          \A i \in 1..(n - 1) : g[i] <= g[i + 1] } } :
            n \in 0..MaxEntries }

EntriesLeaf(es, from, to) ==
    LeafIndexPage([i \in 1..(to - from + 1) |-> IndexCell(es[from + i - 1])])

IndexLeafDbs == { (2 :> EntriesLeaf(es, 1, Len(es))) : es \in EntrySeqs }

IndexFlat2Dbs ==
    UNION { { (2 :> InteriorIndexPage(<<InteriorIndexCell(3, es[j])>>, 4))
              @@ (3 :> EntriesLeaf(es, 1, j - 1))
              @@ (4 :> EntriesLeaf(es, j + 1, Len(es))) : j \in 1..Len(es) } :
            es \in EntrySeqs }

IndexFlat3Dbs ==
    UNION { { (2 :> InteriorIndexPage(<<InteriorIndexCell(3, es[js[1]]),
                                        InteriorIndexCell(4, es[js[2]])>>, 5))
              @@ (3 :> EntriesLeaf(es, 1, js[1] - 1))
              @@ (4 :> EntriesLeaf(es, js[1] + 1, js[2] - 1))
              @@ (5 :> EntriesLeaf(es, js[2] + 1, Len(es))) :
              js \in {p \in (1..Len(es)) \X (1..Len(es)) : p[1] < p[2]} } :
            es \in EntrySeqs }

IndexDeepDbs ==
    UNION { { (2 :> InteriorIndexPage(<<InteriorIndexCell(3, es[js[2]])>>, 4))
              @@ (3 :> InteriorIndexPage(<<InteriorIndexCell(5, es[js[1]])>>, 6))
              @@ (4 :> EntriesLeaf(es, js[2] + 1, Len(es)))
              @@ (5 :> EntriesLeaf(es, 1, js[1] - 1))
              @@ (6 :> EntriesLeaf(es, js[1] + 1, js[2] - 1)) :
              js \in {p \in (1..Len(es)) \X (1..Len(es)) : p[1] < p[2]} } :
            es \in EntrySeqs }

ValidIndexDbs ==
    { d \in IndexLeafDbs \cup IndexFlat2Dbs \cup IndexFlat3Dbs \cup IndexDeepDbs :
        NoEmptyLeaf(d) }
CorruptIndexDbs == UNION { CorruptionsOf(d) : d \in {v \in ValidIndexDbs : AllRows(v, MaxEntries)} }
IndexDbs == ValidIndexDbs \cup CorruptIndexDbs

\* search keys: a key value (present or not), a whole entry, an over-long key
SearchKeys ==
    { <<IntV(v)>> : v \in 0..(MaxKeyVal + 1) }
    \cup { Entry(v, r) : v \in KeyVals, r \in 1..2 }
    \cup { <<IntV(1), IntV(1), IntV(1)>> }

\* ------------------------------------------------------------------- state
VARIABLES
    op,         \* the B-tree operation whose iterator is being ranged over
    filtered,   \* TRUE when the iterator is wrapped in Filter
    pred,       \* the Filter predicate: record[col] > t, failing at errAt
    db,         \* the database file
    table,      \* TableInfo: RootPage, RowIDColumnIndex
    rowID,      \* TableSeek argument
    index,      \* IndexInfo: RootPage
    key,        \* IndexSeek argument
    pc,         \* position of the producer
    pageNum,    \* page about to be read
    stack,      \* frames <<page, i>>: tableScanPage calls / IndexSeek leaf loop
    retval,     \* value returned by the last tableScanPage call
    reads,      \* page numbers passed to ReadPage, in order
    src,        \* elements the B-tree operation yielded into Filter
    predCalls,  \* records the predicate was called with
    out,        \* elements delivered to the consumer
    stopped,    \* the consumer's yield returned false
    declined,   \* the yield seen by the B-tree operation returned false
    arg,        \* argument of a call of the record or header codec
    res,        \* what that call returned
    passes,     \* what the earlier range over the same iterator value delivered
    saved       \* the other iteration over the same Database, between its steps

vars == <<op, filtered, pred, db, table, rowID, index, key, pc, pageNum, stack,
          retval, reads, src, predCalls, out, stopped, declined, arg, res,
          passes, saved>>

params == <<op, filtered, pred, table, rowID, index, key>>
logs == <<src, predCalls, out, stopped, declined>>
codec == <<arg, res>>
ranges == <<passes, saved>>

Rec(r) == [rec |-> r, err |-> "none"]
Err(e) == [rec |-> <<>>, err |-> e]

\* predicates: keep every record, keep those above 2, fail on the value 2
Preds(col) ==
    { [col |-> col, t |-> t, errAt |-> -1] : t \in {0, 2} }
    \cup { [col |-> col, t |-> 0, errAt |-> 2] }

NoPred == [col |-> 0, t |-> 0, errAt |-> -1]

InitRun ==
    /\ pc = "start"
    /\ pageNum = 0
    /\ stack = <<>>
    /\ retval = TRUE
    /\ reads = <<>>
    /\ src = <<>>
    /\ predCalls = <<>>
    /\ out = <<>>
    /\ stopped = FALSE
    /\ declined = FALSE
    /\ passes = <<>>
    /\ saved = <<>>

InitTable ==
    /\ op \in {"TableSeek", "TableScan"}
    /\ \E k \in -1..(NCols - 1) :
         /\ table = [RootPage |-> 2, RowIDColumnIndex |-> k]
         /\ db \in TableDbs(k)
         /\ filtered \in BOOLEAN
         /\ pred \in IF filtered THEN Preds(IF k = -1 THEN 0 ELSE k) ELSE {NoPred}
    /\ rowID \in IF op = "TableSeek" THEN 0..(MaxRowId + 1) ELSE {0}
    /\ index = [RootPage |-> 0]
    /\ key = <<>>

InitIndex ==
    /\ op = "IndexSeek"
    /\ index = [RootPage |-> 2]
    /\ db \in IndexDbs
    /\ key \in SearchKeys
    /\ filtered \in BOOLEAN
    /\ pred \in IF filtered THEN Preds(1) ELSE {NoPred}
    /\ table = [RootPage |-> 0, RowIDColumnIndex |-> -1]
    /\ rowID = 0

Init == (InitTable \/ InitIndex) /\ InitRun /\ arg = <<>> /\ res = <<>>

\* ----------------------------------------------------------------- ReadPage
\* the log of the page numbers passed to ReadPage holds MaxReads of them: a
\* read beyond that starts the log anew
Logged(n) == IF Len(reads) < MaxReads THEN Append(reads, n) ELSE <<n>>

\* the read empties the place it has read in the file
ReadAtDestructive(f, n) ==
    [file |-> [p \in DOMAIN f |-> IF p = n THEN ZeroPage ELSE f[p]],
     err |-> n \notin DOMAIN f,
     data |-> IF n \in DOMAIN f THEN f[n] ELSE ZeroPage]

\* file.ReadAt on the descriptor that os.Open returned (read-only): the bytes
\* of page n are copied into the caller's new buffer, an error when the file
\* ends before; the file is left as it is and no file position is used
ReadAt(f, n) ==
    [file |-> f,
     err |-> n \notin DOMAIN f,
     data |-> IF n \in DOMAIN f THEN f[n] ELSE ZeroPage]

ReadPage(n) ==
    IF ReadAt(db, n).err
    THEN [err |-> TRUE, page |-> ZeroPage]
    ELSE [err |-> FALSE, page |-> ReadAt(db, n).data]

\* ------------------------------------------------------------------- Filter
predicate(record) ==
    IF pred.errAt # -1 /\ record[pred.col + 1] = IntV(pred.errAt)
    THEN [matches |-> FALSE, err |-> TRUE]
    ELSE [matches |-> compareValues(record[pred.col + 1], IntV(pred.t)) > 0,
          err |-> FALSE]

\* Filter yields every record without looking at the predicate's answer
FilterBodyIgnoresMatch(e, c) ==
    IF e.err # "none"
    THEN [out |-> Append(out, Err(e.err)), predCalls |-> predCalls,
          stopped |-> stopped \/ ~c, resp |-> FALSE]
    ELSE LET m == predicate(e.rec)
             calls == Append(predCalls, e.rec)
         IN  IF m.err
             THEN [out |-> Append(out, Err("predicate")), predCalls |-> calls,
                   stopped |-> stopped \/ ~c, resp |-> FALSE]
             ELSE [out |-> Append(out, Rec(e.rec)), predCalls |-> calls,
                   stopped |-> stopped \/ ~c, resp |-> c]

\* Filter goes on with the next element after it has yielded an error
FilterBodyContinuesAfterError(e, c) ==
    IF e.err # "none"
    THEN [out |-> Append(out, Err(e.err)), predCalls |-> predCalls,
          stopped |-> stopped \/ ~c, resp |-> TRUE]
    ELSE LET m == predicate(e.rec)
             calls == Append(predCalls, e.rec)
         IN  IF m.err
             THEN [out |-> Append(out, Err("predicate")), predCalls |-> calls,
                   stopped |-> stopped \/ ~c, resp |-> TRUE]
             ELSE IF m.matches
             THEN [out |-> Append(out, Rec(e.rec)), predCalls |-> calls,
                   stopped |-> stopped \/ ~c, resp |-> c]
             ELSE [out |-> out, predCalls |-> calls,
                   stopped |-> stopped, resp |-> TRUE]

\* One turn of the body of Filter's range loop for the element e pulled from
\* the input; c is what the consumer's yield returns if it is called.  resp is
\* what the input's yield returns: FALSE when the body returns.
FilterBody(e, c) ==
    IF e.err # "none"
    THEN [out |-> Append(out, Err(e.err)), predCalls |-> predCalls,
          stopped |-> stopped \/ ~c, resp |-> FALSE]
    ELSE LET m == predicate(e.rec)
             calls == Append(predCalls, e.rec)
         IN  IF m.err
             THEN [out |-> Append(out, Err("predicate")), predCalls |-> calls,
                   stopped |-> stopped \/ ~c, resp |-> FALSE]
             ELSE IF m.matches
             THEN [out |-> Append(out, Rec(e.rec)), predCalls |-> calls,
                   stopped |-> stopped \/ ~c, resp |-> c]
             ELSE [out |-> out, predCalls |-> calls,
                   stopped |-> stopped, resp |-> TRUE]

\* The B-tree operation calls yield(e): directly the consumer's loop body, or
\* Filter's when the iterator is wrapped.
Yield(e, c) ==
    IF filtered
    THEN FilterBody(e, c)
    ELSE [out |-> Append(out, e), predCalls |-> predCalls,
          stopped |-> stopped \/ ~c, resp |-> c]

Deliver(y, e) ==
    /\ out' = y.out
    /\ predCalls' = y.predCalls
    /\ stopped' = y.stopped
    /\ src' = IF filtered THEN Append(src, e) ELSE src
    /\ declined' = (declined \/ ~y.resp)

\* ---------------------------------------------------------------- TableSeek
\* rowid alias materialisation in TableSeek
SeekPanics(tbl, cell) ==
    /\ tbl.RowIDColumnIndex # -1
    /\ (tbl.RowIDColumnIndex < 0 \/ tbl.RowIDColumnIndex >= Len(cell.Record))

\* the rowId overwrites the first column whatever the alias column is
SeekRecordFirstColumn(tbl, cell) ==
    IF tbl.RowIDColumnIndex # -1
    THEN [cell.Record EXCEPT ![1] = IntV(cell.RowID)]
    ELSE <<IntV(cell.RowID)>> \o cell.Record

SeekRecord(tbl, cell) ==
    IF tbl.RowIDColumnIndex # -1
    THEN [cell.Record EXCEPT ![tbl.RowIDColumnIndex + 1] = IntV(cell.RowID)]
    ELSE <<IntV(cell.RowID)>> \o cell.Record

\* the leaf case without the test that the cell found has the rowId sought
TableSeekLeafNoEqualityTest(pg, rid) ==
    LET cells == pg.LeafCells
        i == sortSearch([j \in 1..Len(cells) |->
                           IF cells[j].RowID >= rid THEN "true" ELSE "false"])
    IN  IF i < Len(cells)
        THEN <<cells[i + 1]>>
        ELSE <<>>

\* leaf case: the cells to emit (none or one)
TableSeekLeaf(pg, rid) ==
    LET cells == pg.LeafCells
        i == sortSearch([j \in 1..Len(cells) |->
                           IF cells[j].RowID >= rid THEN "true" ELSE "false"])
    IN  IF i < Len(cells) /\ cells[i + 1].RowID = rid
        THEN <<cells[i + 1]>>
        ELSE <<>>


\* the descent compares with < instead of <=
TableSeekChildStrict(pg, rid) ==
    LET cells == pg.InteriorCells
        i == sortSearch([j \in 1..Len(cells) |->
                           IF rid < cells[j].Key THEN "true" ELSE "false"])
    IN  IF i < Len(cells)
        THEN cells[i + 1].LeftChildPageNum
        ELSE pg.RightMostPtr

\* interior case: the child to descend into
TableSeekChild(pg, rid) ==
    LET cells == pg.InteriorCells
        i == sortSearch([j \in 1..Len(cells) |->
                           IF rid <= cells[j].Key THEN "true" ELSE "false"])
    IN  IF i < Len(cells)
        THEN cells[i + 1].LeftChildPageNum
        ELSE pg.RightMostPtr

\* the descent goes on from the page number the previous range ended with
BeginResumes ==
    /\ pc = "start"
    /\ pc' = IF op = "TableScan" THEN "call" ELSE "loop"
    /\ pageNum' = IF passes # <<>> THEN pageNum
                  ELSE IF op = "IndexSeek" THEN index.RootPage ELSE table.RootPage
    /\ UNCHANGED <<params, codec, ranges, db, stack, retval, reads, logs>>

\* the iterator function is called by the range statement
Begin ==
    /\ pc = "start"
    /\ pc' = IF op = "TableScan" THEN "call" ELSE "loop"
    /\ pageNum' = IF op = "IndexSeek" THEN index.RootPage ELSE table.RootPage
    /\ UNCHANGED <<params, codec, ranges, db, stack, retval, reads, logs>>

\* one iteration of the descent loop of TableSeek
TableSeekStep ==
    /\ op = "TableSeek"
    /\ pc = "loop"
    /\ reads' = Logged(pageNum)
    /\ LET r == ReadPage(pageNum)
       IN  IF r.err
           THEN /\ \E c \in BOOLEAN : Deliver(Yield(Err("read"), c), Err("read"))
                /\ pc' = "done"
                /\ pageNum' = pageNum
           ELSE IF r.page.Type = PageTypeLeafTable
           THEN LET found == TableSeekLeaf(r.page, rowID)
                IN  /\ pageNum' = pageNum
                    /\ IF found = <<>>
                       THEN pc' = "done" /\ UNCHANGED logs
                       ELSE IF SeekPanics(table, found[1])
                       THEN pc' = "panic" /\ UNCHANGED logs
                       ELSE LET e == Rec(SeekRecord(table, found[1]))
                            IN  /\ \E c \in BOOLEAN : Deliver(Yield(e, c), e)
                                /\ pc' = "done"
           ELSE IF r.page.Type = PageTypeInteriorTable
           THEN /\ pageNum' = TableSeekChild(r.page, rowID)
                /\ pc' = "loop"
                /\ UNCHANGED logs
           ELSE /\ \E c \in BOOLEAN : Deliver(Yield(Err("pagetype"), c), Err("pagetype"))
                /\ pc' = "done"
                /\ pageNum' = pageNum
    /\ db' = ReadAt(db, pageNum).file
    /\ UNCHANGED <<params, codec, ranges, stack, retval>>

\* ---------------------------------------------------------------- IndexSeek
\* cell.Payload[:len(key)] panics when len(key) exceeds the capacity of the
\* payload slice, which ParseRecord allocates with exactly its length
PrefixPanics(payload, k) == Len(k) > Len(payload)
Prefix(payload, k) == SubSeq(payload, 1, Len(k))

\* leaf case: position where the forward iteration starts (-1: panic)
IndexSeekLeafStart(pg, k) ==
    LET cells == pg.LeafIndexCells
    IN  sortSearch([j \in 1..Len(cells) |->
                      IF PrefixPanics(cells[j].Payload, k) THEN "panic"
                      ELSE IF CompareRecords(Prefix(cells[j].Payload, k), k) >= 0
                      THEN "true" ELSE "false"])

\* what the forward iteration does with one cell
IndexSeekCell(cell, k) ==
    IF Len(cell.Payload) < Len(k) THEN "continue"
    ELSE IF CompareRecords(Prefix(cell.Payload, k), k) = 0 THEN "yield"
    ELSE "break"

\* interior case: the child to descend into
IndexSeekChild(pg, k) ==
    LET cells == pg.InteriorIndexCells
        i == sortSearch([j \in 1..Len(cells) |->
                           IF CompareRecords(k, cells[j].Payload) <= 0
                           THEN "true" ELSE "false"])
    IN  IF i < Len(cells)
        THEN cells[i + 1].LeftChildPageNum
        ELSE pg.RightMostPtr

\* one iteration of the descent loop of IndexSeek, up to the binary search
IndexSeekStep ==
    /\ op = "IndexSeek"
    /\ pc = "loop"
    /\ reads' = Logged(pageNum)
    /\ LET r == ReadPage(pageNum)
       IN  IF r.err
           THEN /\ \E c \in BOOLEAN : Deliver(Yield(Err("read"), c), Err("read"))
                /\ pc' = "done"
                /\ UNCHANGED <<pageNum, stack>>
           ELSE IF r.page.Type = PageTypeLeafIndex
           THEN LET i == IndexSeekLeafStart(r.page, key)
                IN  /\ IF i = -1
                       THEN pc' = "panic" /\ stack' = stack
                       ELSE pc' = "leafloop" /\ stack' = <<[page |-> r.page, i |-> i]>>
                    /\ UNCHANGED <<pageNum, logs>>
           ELSE IF r.page.Type = PageTypeInteriorIndex
           THEN /\ pageNum' = IndexSeekChild(r.page, key)
                /\ pc' = "loop"
                /\ UNCHANGED <<stack, logs>>
           ELSE /\ \E c \in BOOLEAN : Deliver(Yield(Err("pagetype"), c), Err("pagetype"))
                /\ pc' = "done"
                /\ UNCHANGED <<pageNum, stack>>
    /\ db' = ReadAt(db, pageNum).file
    /\ UNCHANGED <<params, codec, ranges, retval>>

\* one turn of the forward iteration over the leaf cells
IndexSeekLeafStep ==
    /\ op = "IndexSeek"
    /\ pc = "leafloop"
    /\ LET f == stack[1]
           cells == f.page.LeafIndexCells
       IN  IF f.i >= Len(cells)
           THEN pc' = "done" /\ UNCHANGED <<stack, logs>>
           ELSE LET cell == cells[f.i + 1]
                    what == IndexSeekCell(cell, key)
                IN  IF what = "continue"
                    THEN /\ stack' = <<[f EXCEPT !.i = f.i + 1]>>
                         /\ pc' = "leafloop"
                         /\ UNCHANGED logs
                    ELSE IF what = "yield"
                    THEN \E c \in BOOLEAN :
                           LET y == Yield(Rec(cell.Payload), c)
                           IN  /\ Deliver(y, Rec(cell.Payload))
                               /\ IF y.resp
                                  THEN stack' = <<[f EXCEPT !.i = f.i + 1]>> /\ pc' = "leafloop"
                                  ELSE stack' = stack /\ pc' = "done"
                    ELSE pc' = "done" /\ UNCHANGED <<stack, logs>>
    /\ UNCHANGED <<params, codec, ranges, db, pageNum, retval, reads>>

\* ---------------------------------------------------------------- TableScan
\* rowid alias materialisation in tableScanPage
ScanPanics(tbl, cell) ==
    /\ tbl.RowIDColumnIndex # -1
    /\ (tbl.RowIDColumnIndex < 0 \/ tbl.RowIDColumnIndex >= Len(cell.Record))

\* the rowId is appended after the stored columns instead of prepended
ScanRecordAppend(tbl, cell) ==
    IF tbl.RowIDColumnIndex # -1
    THEN [cell.Record EXCEPT ![tbl.RowIDColumnIndex + 1] = IntV(cell.RowID)]
    ELSE cell.Record \o <<IntV(cell.RowID)>>

ScanRecord(tbl, cell) ==
    IF tbl.RowIDColumnIndex # -1
    THEN [cell.Record EXCEPT ![tbl.RowIDColumnIndex + 1] = IntV(cell.RowID)]
    ELSE <<IntV(cell.RowID)>> \o cell.Record

\* tableScanPage returns yield's answer after delivering an error
ScanErrorReturn(resp) == resp

\* the leaf loop ignores what yield returned
ScanLeafContinueAlways(resp) == TRUE

\* the leaf loop goes on to the next cell only if yield returned true
ScanLeafContinue(resp) == resp

\* the interior loop tests the call's result without the negation
ScanInteriorContinueInverted(ret) == ~ret

\* the interior loop goes on to the next child only if the call returned true
ScanInteriorContinue(ret) == ret

Top == stack[Len(stack)]
Pop == SubSeq(stack, 1, Len(stack) - 1)
SetTop(f) == [stack EXCEPT ![Len(stack)] = f]

\* the switch of tableScanPage also takes interior index pages as interior
scanCasesWithInteriorIndex ==
    {PageTypeLeafTable, PageTypeInteriorTable, PageTypeInteriorIndex}

\* the page types the switch of tableScanPage has a case for
scanCases == {PageTypeLeafTable, PageTypeInteriorTable}

\* tableScanPage is entered: ReadPage and the switch on the page type
ScanEnter ==
    /\ op = "TableScan"
    /\ pc = "call"
    /\ Len(stack) < MaxDepth
    /\ reads' = Logged(pageNum)
    /\ LET r == ReadPage(pageNum)
       IN  IF r.err \/ r.page.Type \notin scanCases
           THEN LET e == IF r.err THEN Err("read") ELSE Err("pagetype")
                IN  \E c \in BOOLEAN :
                      LET y == Yield(e, c)
                      IN  /\ Deliver(y, e)
                          /\ retval' = ScanErrorReturn(y.resp)
                          /\ pc' = "ret"
                          /\ stack' = stack
           ELSE /\ stack' = Append(stack, [page |-> r.page, i |-> 0])
                /\ pc' = IF r.page.Type = PageTypeLeafTable THEN "leaf" ELSE "interior"
                /\ UNCHANGED <<retval, logs>>
    /\ db' = ReadAt(db, pageNum).file
    /\ UNCHANGED <<params, codec, ranges, pageNum>>

\* the recursion of tableScanPage is deeper than the goroutine's stack
\* allows: the runtime ends the program (fatal error: stack overflow)
ScanOverflow ==
    /\ op = "TableScan"
    /\ pc = "call"
    /\ Len(stack) >= MaxDepth
    /\ pc' = "panic"
    /\ UNCHANGED <<params, codec, ranges, db, pageNum, stack, retval, reads, logs>>

\* one turn of the loop over the leaf cells
ScanLeafStep ==
    /\ op = "TableScan"
    /\ pc = "leaf"
    /\ LET cells == Top.page.LeafCells
       IN  IF Top.i >= Len(cells)
           THEN /\ retval' = TRUE
                /\ stack' = Pop
                /\ pc' = "ret"
                /\ UNCHANGED logs
           ELSE LET cell == cells[Top.i + 1]
                IN  IF ScanPanics(table, cell)
                    THEN pc' = "panic" /\ UNCHANGED <<stack, retval, logs>>
                    ELSE \E c \in BOOLEAN :
                           LET e == Rec(ScanRecord(table, cell))
                               y == Yield(e, c)
                           IN  /\ Deliver(y, e)
                               /\ IF ScanLeafContinue(y.resp)
                                  THEN /\ stack' = SetTop([Top EXCEPT !.i = Top.i + 1])
                                       /\ pc' = "leaf"
                                       /\ retval' = retval
                                  ELSE /\ stack' = Pop
                                       /\ pc' = "ret"
                                       /\ retval' = FALSE
    /\ UNCHANGED <<params, codec, ranges, db, pageNum, reads>>

\* the scan visits the right-most child before the children of the cells
ScanChildRightMostFirst(pg, i) ==
    IF i = 0
    THEN pg.RightMostPtr
    ELSE pg.InteriorCells[i].LeftChildPageNum

\* the page of the i-th recursive call (counted from 0) made for the interior
\* page pg: the left child of cell i, and the right-most child after the loop
ScanChild(pg, i) ==
    IF i < Len(pg.InteriorCells)
    THEN pg.InteriorCells[i + 1].LeftChildPageNum
    ELSE pg.RightMostPtr

\* one turn of the loop over the interior cells: the recursive call, or the
\* final call on the right-most child
ScanInteriorStep ==
    /\ op = "TableScan"
    /\ pc = "interior"
    /\ pageNum' = ScanChild(Top.page, Top.i)
    /\ pc' = "call"
    /\ UNCHANGED <<params, codec, ranges, db, stack, retval, reads, logs>>

\* a tableScanPage call returns to its caller
ScanReturn ==
    /\ op = "TableScan"
    /\ pc = "ret"
    /\ IF stack = <<>>
       THEN pc' = "done" /\ UNCHANGED <<stack, retval>>
       ELSE IF Top.i >= Len(Top.page.InteriorCells)
       THEN \* return db.tableScanPage(int(page.RightMostPtr), table, yield)
            /\ stack' = Pop
            /\ pc' = "ret"
            /\ retval' = retval
       ELSE IF ScanInteriorContinue(retval)
       THEN /\ stack' = SetTop([Top EXCEPT !.i = Top.i + 1])
            /\ pc' = "interior"
            /\ retval' = retval
       ELSE /\ stack' = Pop
            /\ pc' = "ret"
            /\ retval' = FALSE
    /\ UNCHANGED <<params, codec, ranges, db, pageNum, reads, logs>>

Next ==
    \/ Begin
    \/ TableSeekStep
    \/ IndexSeekStep
    \/ IndexSeekLeafStep
    \/ ScanEnter
    \/ ScanLeafStep
    \/ ScanInteriorStep
    \/ ScanReturn

Spec == Init /\ [][Next]_vars

\* ------------------------------------------- ranging again, side by side
\* One iteration: the arguments the iterator value was made with, the local
\* variables of the running iterator function and what its consumer has seen.
Iteration ==
    [op |-> op, filtered |-> filtered, pred |-> pred, table |-> table,
     rowID |-> rowID, index |-> index, key |-> key, pc |-> pc,
     pageNum |-> pageNum, stack |-> stack, retval |-> retval, reads |-> reads,
     src |-> src, predCalls |-> predCalls, out |-> out, stopped |-> stopped,
     declined |-> declined, passes |-> passes]

\* the iterator values another consumer may range over on the same Database
Others ==
    LET fresh == [Iteration EXCEPT
                     !.filtered = FALSE, !.pred = NoPred, !.pc = "start",
                     !.stack = <<>>, !.retval = TRUE, !.reads = <<>>,
                     !.src = <<>>, !.predCalls = <<>>, !.out = <<>>,
                     !.stopped = FALSE, !.declined = FALSE, !.passes = <<>>]
    IN  IF op = "IndexSeek"
        THEN { [fresh EXCEPT !.key = <<IntV(v)>>] : v \in {1, MaxKeyVal} }
        ELSE { [fresh EXCEPT !.op = "TableScan", !.rowID = 0] }
             \cup { [fresh EXCEPT !.op = "TableSeek", !.rowID = MaxRowId] }

\* The range statement is executed once more on the same iterator value: the
\* iterator function is called again.  When the first range ran to its end,
\* another iteration over the same Database may start beside the second.
RangeAgain ==
    /\ pc = "done"
    /\ passes = <<>>
    /\ saved = <<>>
    /\ passes' = <<[out |-> out, reads |-> reads, stopped |-> stopped]>>
    /\ saved' \in {<<>>} \cup { <<b>> : b \in IF stopped THEN {} ELSE Others }
    /\ pc' = "start"
    /\ stack' = <<>>
    /\ retval' = TRUE
    /\ reads' = <<>>
    /\ src' = <<>>
    /\ predCalls' = <<>>
    /\ out' = <<>>
    /\ stopped' = FALSE
    /\ declined' = FALSE
    /\ UNCHANGED <<params, codec, db, pageNum>>

\* the page number of the descent is kept in the Database, for all iterations
ResumeSharedPageNum(s) == [s EXCEPT !.pageNum = pageNum]

\* what an iteration finds when it goes on: the variables of its own call of
\* the iterator function, as it left them
Resume(s) == s

\* the running iteration stops between two steps and the other one goes on
Switch ==
    /\ saved # <<>>
    /\ pc # "panic"
    /\ saved[1].pc # "done"
    /\ saved' = <<Iteration>>
    /\ LET s == Resume(saved[1])
       IN  /\ op' = s.op
           /\ filtered' = s.filtered
           /\ pred' = s.pred
           /\ table' = s.table
           /\ rowID' = s.rowID
           /\ index' = s.index
           /\ key' = s.key
           /\ pc' = s.pc
           /\ pageNum' = s.pageNum
           /\ stack' = s.stack
           /\ retval' = s.retval
           /\ reads' = s.reads
           /\ src' = s.src
           /\ predCalls' = s.predCalls
           /\ out' = s.out
           /\ stopped' = s.stopped
           /\ declined' = s.declined
           /\ passes' = s.passes
    /\ UNCHANGED <<codec, db>>

\* the three operations, bare or under Filter, on the valid trees of three
\* levels that hold every row
InitAgain ==
    /\ \/ /\ op \in {"TableSeek", "TableScan"}
          /\ \E k \in -1..(NCols - 1) :
               /\ table = [RootPage |-> 2, RowIDColumnIndex |-> k]
               /\ db \in {v \in TableDeepDbs(k) : NoEmptyLeaf(v) /\ AllRows(v, MaxRowId)}
               /\ filtered \in BOOLEAN
               /\ pred \in IF filtered THEN Preds(IF k = -1 THEN 0 ELSE k) ELSE {NoPred}
          /\ rowID \in IF op = "TableSeek" THEN {1, MaxRowId} ELSE {0}
          /\ index = [RootPage |-> 0]
          /\ key = <<>>
       \/ /\ op = "IndexSeek"
          /\ index = [RootPage |-> 2]
          /\ db \in {v \in IndexDeepDbs : NoEmptyLeaf(v) /\ AllRows(v, MaxEntries)}
          /\ key \in { <<IntV(v)>> : v \in {1, MaxKeyVal} }
          /\ filtered \in BOOLEAN
          /\ pred \in IF filtered THEN Preds(1) ELSE {NoPred}
          /\ table = [RootPage |-> 0, RowIDColumnIndex |-> -1]
          /\ rowID = 0
    /\ InitRun
    /\ arg = <<>>
    /\ res = <<>>

NextAgain == Next \/ RangeAgain \/ Switch

SpecAgain == InitAgain /\ [][NextAgain]_vars

\* ------------------------------------------------ files with a cycle
\* the three operations on files in which a child pointer leads back to the
\* page that holds it or to an ancestor; the consumer keeps pulling as long
\* as steps are taken
InitCyclic ==
    /\ \/ /\ op \in {"TableSeek", "TableScan"}
          /\ \E k \in -1..(NCols - 1) :
               /\ table = [RootPage |-> 2, RowIDColumnIndex |-> k]
               /\ db \in UNION { CyclicOf(d) :
                                d \in {v \in ValidTableDbs(k) : AllRows(v, MaxRowId)} }
          /\ rowID \in IF op = "TableSeek" THEN 0..(MaxRowId + 1) ELSE {0}
          /\ index = [RootPage |-> 0]
          /\ key = <<>>
       \/ /\ op = "IndexSeek"
          /\ index = [RootPage |-> 2]
          /\ db \in UNION { CyclicOf(d) :
                           d \in {v \in ValidIndexDbs : AllRows(v, MaxEntries)} }
          /\ key \in { <<IntV(v)>> : v \in 0..(MaxKeyVal + 1) }
          /\ table = [RootPage |-> 0, RowIDColumnIndex |-> -1]
          /\ rowID = 0
    /\ filtered = FALSE
    /\ pred = NoPred
    /\ InitRun
    /\ arg = <<>>
    /\ res = <<>>

NextCyclic == Next \/ ScanOverflow

SpecCyclic == InitCyclic /\ [][NextCyclic]_vars /\ WF_vars(NextCyclic)

\* ------------------------------------------- calls of the codec functions
\* byte sequences of a given length over a set of bytes
SeqsOf(B, n) == UNION { [1..l -> B] : l \in 0..n }

\* varint inputs: k continuation bytes, then up to MaxTail bytes
VarintBytes == {0, 1, 127, 128, 129, 255}
VarintInputs ==
    { [i \in 1..k |-> c] \o t :
        k \in 0..10, c \in {128, 129, 255}, t \in SeqsOf(VarintBytes, MaxTail) }

\* column bodies: a first byte, then one byte repeated
Bodies(first, rest) ==
    { [i \in 1..l |-> IF i = 1 THEN f ELSE r] :
        l \in 0..MaxBody, f \in first, r \in rest }

\* serial types: the small ones, a negative one, and two beyond every length
SerialTypes ==
    { Int64(t) : t \in -1..MaxSerialType }
    \cup { <<0, 1>> \o Zeros(62), <<0, 1>> \o Zeros(61) \o <<1>> }

SerialTypeInputs ==
    { [serialType |-> st, body |-> b] :
        st \in SerialTypes, b \in Bodies({0, 127, 128, 255}, {0, 1, 255}) }

\* record payloads: a header size byte, up to NCols serial type bytes (129
\* starts a varint of two bytes), a body; and a payload whose header size is
\* a varint of nine bytes
SerialTypeBytes == {0, 1, 2, 6, 9, 10, 14, 15, 129}
RecordInputs ==
    { <<h>> \o ts \o b :
        h \in 0..(NCols + 3), ts \in SeqsOf(SerialTypeBytes, NCols),
        b \in Bodies({1, 255}, {0, 255}) }
    \cup { [i \in 1..9 |-> 255] \o b : b \in Bodies({1}, {0}) }

\* numbers to compare
f64Bits(s, e, frac) == <<s>> \o NatBits(e, 11) \o frac \o Zeros(52 - Len(frac))
TwoTo53 == Zeros(10) \o <<1>> \o Zeros(53)
CompareNumbers ==
    { Int64V(b) : b \in { Int64(0), Int64(1), Int64(5), Int64(-1), TwoTo53,
                          Incr(TwoTo53), <<0>> \o Ones(63), <<1>> \o Zeros(63) } }
    \cup { FloatV(b) : b \in { f64Bits(0, 0, <<>>), f64Bits(1, 0, <<>>),
                               f64Bits(0, 1022, <<>>), f64Bits(0, 1025, <<0, 1>>),
                               f64Bits(1, 1025, <<0, 1>>), f64Bits(0, 1076, <<>>),
                               f64Bits(0, 2047, <<>>), f64Bits(0, 2047, <<1>>) } }

CompareValueInputs ==
    {SQLNull} \cup CompareNumbers
    \cup { TextV(t) : t \in {<<>>, <<97>>, <<97, 98>>} }
    \cup { BlobV(t) : t \in {<<>>, <<97>>} }

CompareRecordInputs ==
    UNION { [1..l -> {Int64V(Int64(5)), FloatV(f64Bits(0, 1025, <<0, 1>>)),
                      TextV(<<97>>)}] : l \in 0..MaxRecordLen }

\* files: the magic string (or one with a wrong byte), a page size field,
\* zeros, cut or padded to a length
HeaderBytes(bad, hi, lo) ==
    [i \in 1..(2 * HeaderSize) |->
        IF i <= 16 THEN (IF i = bad THEN 1 ELSE HeaderString[i])
        ELSE IF i = 17 THEN hi
        ELSE IF i = 18 THEN lo
        ELSE 0]

HeaderInputs ==
    { SubSeq(HeaderBytes(bad, ps[1], ps[2]), 1, l) :
        bad \in {0, 1, 16},
        ps \in {<<0, 0>>, <<0, 1>>, <<2, 0>>, <<16, 0>>, <<128, 0>>},
        l \in {0, 10, 16, HeaderSize - 1, HeaderSize, HeaderSize + 1,
               2 * HeaderSize} }

PageNums == {1, 2, 3}

\* pages of bytes: room for the file header, a page header, MaxCells cell
\* pointers and MaxCells cells
PageLen == HeaderSize + 12 + 2 * MaxCells + MaxCells * MaxCellLen

\* the bytes of cell i: row i with the one column 10 + i, the child 2 + i with
\* the key i, the index entry (i, 10 + i); big declares a payload of 100 bytes
CellBytes(type, i, big) ==
    CASE type = PageTypeLeafTable -> <<IF big THEN 100 ELSE 3, i, 2, 1, 10 + i>>
      [] type = PageTypeInteriorTable -> <<0, 0, 0, 2 + i, i>>
      [] type = PageTypeLeafIndex ->
           <<IF big THEN 100 ELSE 5, 3, 1, 1, i, 10 + i>>
      [] type = PageTypeInteriorIndex ->
           <<0, 0, 0, 2 + i, IF big THEN 100 ELSE 5, 3, 1, 1, i, 10 + i>>
      [] OTHER -> <<>>

\* where cell i of n is stored, counted from byte 0 of the page: the cells
\* lie at the end of the page
CellAt(type, n, i) ==
    PageLen - (n - i) * MaxCellLen - Len(CellBytes(type, i, FALSE))

\* the pointer stored for cell i: to the cell, into the cell, to the end of
\* the page, beyond the page
PointerKinds == {"cell", "inside", "end", "beyond"}
PointerOf(d, i) ==
    CASE d.cells[i].ptr = "cell" -> CellAt(d.type, Len(d.cells), i)
      [] d.cells[i].ptr = "inside" -> CellAt(d.type, Len(d.cells), i) + 2
      [] d.cells[i].ptr = "end" -> PageLen
      [] OTHER -> PageLen + 1

\* the right-most child stored in the header of an interior page
RightChild == 9

\* the bytes of the page described by d: page 1 begins with the file header
Image(d) ==
    LET off == IF d.pageNum = 1 THEN HeaderSize ELSE 0
        interior == d.type \in {PageTypeInteriorTable, PageTypeInteriorIndex}
        hs == IF interior THEN 12 ELSE 8
        n == Len(d.cells)
        inCell(q) == { i \in 1..n :
                        /\ CellAt(d.type, n, i) <= q
                        /\ q < CellAt(d.type, n, i)
                                + Len(CellBytes(d.type, i, FALSE)) }
        byte(q) ==
            IF q < off THEN PageTypeLeafTable
            ELSE IF q = off THEN d.type
            ELSE IF q = off + 3 THEN n \div 256
            ELSE IF q = off + 4 THEN n % 256
            ELSE IF interior /\ q = off + 11 THEN RightChild
            ELSE IF off + hs <= q /\ q < off + hs + 2 * n
            THEN LET i == (q - off - hs) \div 2 + 1
                 IN  IF (q - off - hs) % 2 = 0
                     THEN PointerOf(d, i) \div 256 ELSE PointerOf(d, i) % 256
            ELSE IF inCell(q) # {}
            THEN LET i == CHOOSE i \in inCell(q) : TRUE
                 IN  CellBytes(d.type, i, d.cells[i].big)[q - CellAt(d.type, n, i) + 1]
            ELSE 0
    IN  [q \in 1..PageLen |-> byte(q - 1)]

PageInputs ==
    { [pageNum |-> pn, type |-> t, cells |-> cs] :
        pn \in {1, 2},
        t \in {PageTypeLeafTable, PageTypeInteriorTable, PageTypeLeafIndex,
               PageTypeInteriorIndex, 0},
        cs \in UNION { [1..n -> [ptr : PointerKinds, big : BOOLEAN]] :
                         n \in 0..MaxCells } }

CodecOps == {"readVarint", "serialTypeToValue", "ParseRecord", "compareValues",
             "CompareRecords", "ParseHeader", "Open", "ParsePage"}

InitCodec ==
    /\ op \in CodecOps
    /\ arg \in CASE op = "readVarint" -> VarintInputs
                 [] op = "serialTypeToValue" -> SerialTypeInputs
                 [] op = "ParseRecord" -> RecordInputs
                 [] op = "compareValues" ->
                      CompareValueInputs \X CompareValueInputs \X CompareValueInputs
                 [] op = "CompareRecords" ->
                      CompareRecordInputs \X CompareRecordInputs \X CompareRecordInputs
                 [] op = "ParsePage" -> PageInputs
                 [] OTHER -> HeaderInputs
    /\ res = <<>>
    /\ filtered = FALSE
    /\ pred = NoPred
    /\ db = <<>>
    /\ table = [RootPage |-> 0, RowIDColumnIndex |-> -1]
    /\ rowID = 0
    /\ index = [RootPage |-> 0]
    /\ key = <<>>
    /\ InitRun

Return(r) ==
    /\ pc = "start"
    /\ pc' = "done"
    /\ res' = r
    /\ UNCHANGED <<params, ranges, db, arg, pageNum, stack, retval, reads, logs>>

CallReadVarint == op = "readVarint" /\ Return(readVarint(arg))

CallSerialTypeToValue ==
    op = "serialTypeToValue" /\ Return(serialTypeToValue(arg.serialType, arg.body))

CallParseRecord == op = "ParseRecord" /\ Return(ParseRecord(arg))

\* the comparison of every pair of the three arguments
CallCompareValues ==
    /\ op = "compareValues"
    /\ Return([x \in (1..3) \X (1..3) |-> compareValues(arg[x[1]], arg[x[2]])])

CallCompareRecords ==
    /\ op = "CompareRecords"
    /\ Return([x \in (1..3) \X (1..3) |-> CompareRecords(arg[x[1]], arg[x[2]])])

CallParseHeader == op = "ParseHeader" /\ Return(ParseHeader(arg))

CallOpen ==
    /\ op = "Open"
    /\ Return([db |-> Open(arg), pageNum |-> 0, length |-> 0, offset |-> 0])

\* db.ReadPage(n) on the handle that Open returned
CallReadPage ==
    /\ op = "Open" /\ pc = "done" /\ ~res.db.nil
    /\ \E n \in PageNums :
         LET r == ReadPageAt(res.db.PageSize, n)
         IN  res' = [res EXCEPT !.pageNum = n, !.length = r.length,
                                !.offset = r.offset]
    /\ pc' = "read"
    /\ UNCHANGED <<params, ranges, db, arg, pageNum, stack, retval, reads, logs>>

CallParsePage == op = "ParsePage" /\ Return(ParsePage(Image(arg), arg.pageNum))

NextCodec ==
    \/ CallReadVarint
    \/ CallSerialTypeToValue
    \/ CallParseRecord
    \/ CallCompareValues
    \/ CallCompareRecords
    \/ CallParseHeader
    \/ CallOpen
    \/ CallReadPage
    \/ CallParsePage

SpecCodec == InitCodec /\ [][NextCodec]_vars

\* ------------------------------------------------- reference definitions
\* what the B-tree operation itself yielded
produced == IF filtered THEN src ELSE out

HasErr(q) == \E i \in 1..Len(q) : q[i].err # "none"

RECURSIVE Concat(_)
Concat(ss) == IF ss = <<>> THEN <<>> ELSE Head(ss) \o Concat(Tail(ss))

\* every page under p exists and has one of the two kinds, within depth fuel
RECURSIVE WellFormed(_, _, _, _, _)
WellFormed(d, p, leafKind, interiorKind, fuel) ==
    /\ fuel > 0
    /\ p \in DOMAIN d
    /\ \/ d[p].Type = leafKind
       \/ /\ d[p].Type = interiorKind
          /\ LET cells == IF interiorKind = PageTypeInteriorTable
                          THEN d[p].InteriorCells ELSE d[p].InteriorIndexCells
             IN  /\ \A i \in 1..Len(cells) :
                       WellFormed(d, cells[i].LeftChildPageNum, leafKind, interiorKind, fuel - 1)
                 /\ WellFormed(d, d[p].RightMostPtr, leafKind, interiorKind, fuel - 1)

\* the rows under p lie in (lo, hi], keys and rowIds strictly ascending
RECURSIVE Partitioned(_, _, _, _)
Partitioned(d, p, lo, hi) ==
    IF d[p].Type = PageTypeLeafTable
    THEN LET cells == d[p].LeafCells
         IN  /\ \A i \in 1..Len(cells) : lo < cells[i].RowID /\ cells[i].RowID <= hi
             /\ \A i \in 1..(Len(cells) - 1) : cells[i].RowID < cells[i + 1].RowID
    ELSE LET cells == d[p].InteriorCells
             n == Len(cells)
             low(i) == IF i = 1 THEN lo
                       ELSE IF cells[i - 1].Key > lo THEN cells[i - 1].Key ELSE lo
             high(i) == IF cells[i].Key < hi THEN cells[i].Key ELSE hi
         IN  /\ \A i \in 1..(n - 1) : cells[i].Key < cells[i + 1].Key
             /\ \A i \in 1..n : Partitioned(d, cells[i].LeftChildPageNum, low(i), high(i))
             /\ Partitioned(d, d[p].RightMostPtr, low(n + 1), hi)

ValidTableTree ==
    /\ WellFormed(db, table.RootPage, PageTypeLeafTable, PageTypeInteriorTable,
                  Cardinality(DOMAIN db))
    /\ Partitioned(db, table.RootPage, -1, MaxRowId + 1)

\* leaf cells of the table tree under p, depth first, left to right
RECURSIVE InOrderCells(_, _)
InOrderCells(d, p) ==
    IF d[p].Type = PageTypeLeafTable
    THEN d[p].LeafCells
    ELSE Concat([i \in 1..Len(d[p].InteriorCells) |->
                    InOrderCells(d, d[p].InteriorCells[i].LeftChildPageNum)])
         \o InOrderCells(d, d[p].RightMostPtr)

\* the leaf cells stored anywhere in the file
LeafCellSet == { db[p].LeafCells[i] : <<p, i>> \in
                   { x \in (DOMAIN db) \X (1..MaxRowId) : x[2] <= Len(db[x[1]].LeafCells) } }

RECURSIVE SumLen(_)
SumLen(P) ==
    IF P = {} THEN 0
    ELSE LET p == CHOOSE x \in P : TRUE
         IN  Len(db[p].LeafCells) + SumLen(P \ {p})

\* the record a caller is to receive for a leaf cell
RowRecord(k, cell) ==
    IF k = -1
    THEN [j \in 1..(Len(cell.Record) + 1) |->
             IF j = 1 THEN IntV(cell.RowID) ELSE cell.Record[j - 1]]
    ELSE [j \in 1..Len(cell.Record) |->
             IF j = k + 1 THEN IntV(cell.RowID) ELSE cell.Record[j]]

\* column (1-based) of an emitted table record that holds the rowId
RowIdCol == IF table.RowIDColumnIndex = -1 THEN 1 ELSE table.RowIDColumnIndex + 1

\* entries of the index tree under p in order: left subtree, cell, ..., right
RECURSIVE InOrderEntries(_, _)
InOrderEntries(d, p) ==
    IF d[p].Type = PageTypeLeafIndex
    THEN [i \in 1..Len(d[p].LeafIndexCells) |-> d[p].LeafIndexCells[i].Payload]
    ELSE Concat([i \in 1..Len(d[p].InteriorIndexCells) |->
                    InOrderEntries(d, d[p].InteriorIndexCells[i].LeftChildPageNum)
                    \o <<d[p].InteriorIndexCells[i].Payload>>])
         \o InOrderEntries(d, d[p].RightMostPtr)

ValidIndexTree ==
    /\ WellFormed(db, index.RootPage, PageTypeLeafIndex, PageTypeInteriorIndex,
                  Cardinality(DOMAIN db))
    /\ LET es == InOrderEntries(db, index.RootPage)
       IN  \A i \in 1..(Len(es) - 1) : CompareRecords(es[i], es[i + 1]) < 0

\* payloads of the leaf cells stored anywhere in the file
LeafEntrySet == { db[p].LeafIndexCells[i].Payload : <<p, i>> \in
                    { x \in (DOMAIN db) \X (1..MaxEntries) :
                        x[2] <= Len(db[x[1]].LeafIndexCells) } }

Matches(payload, k) ==
    /\ Len(payload) >= Len(k)
    /\ CompareRecords(SubSeq(payload, 1, Len(k)), k) = 0

\* ------------------------------------------------------------------ claims
\* C1: on a valid table B-tree, a finished TableSeek for rowID has yielded
\* exactly one record, that of the leaf cell whose rowId is rowID, when such a
\* cell is stored in the tree, and nothing (no record, no error) otherwise.
C1_TableSeekFindsRow ==
    (op = "TableSeek" /\ pc = "done" /\ ValidTableTree) =>
        LET hits == { c \in LeafCellSet : c.RowID = rowID }
        IN  IF hits = {}
            THEN produced = <<>>
            ELSE \E c \in hits :
                    produced = <<Rec(RowRecord(table.RowIDColumnIndex, c))>>

\* a row found two levels below the root
C1_Witness ==
    /\ op = "TableSeek" /\ pc = "done" /\ ValidTableTree
    /\ Len(reads) = 3
    /\ Len(produced) = 1
    /\ produced[1].rec[RowIdCol] = IntV(rowID)

\* C2: on a valid table B-tree, a TableScan consumed to the end has yielded
\* the record of every leaf cell exactly once in depth-first left-to-right
\* order, so the rowIds are strictly ascending and there are as many records
\* as there are leaf cells in the tree.
C2_TableScanInOrder ==
    (op = "TableScan" /\ pc = "done" /\ ValidTableTree /\ ~declined) =>
        LET cells == InOrderCells(db, table.RootPage)
        IN  /\ produced = [i \in 1..Len(cells) |->
                              Rec(RowRecord(table.RowIDColumnIndex, cells[i]))]
            /\ \A i \in 1..(Len(produced) - 1) :
                   int64Less(Word(produced[i].rec[RowIdCol]),
                             Word(produced[i + 1].rec[RowIdCol]))
            /\ Len(produced) = SumLen(DOMAIN db)

\* a full scan over a tree of depth three with rows in three leaves
C2_Witness ==
    /\ op = "TableScan" /\ pc = "done" /\ ValidTableTree /\ ~declined
    /\ Cardinality(DOMAIN db) = 5
    /\ Len(produced) = MaxRowId
    /\ \A p \in DOMAIN db : db[p].Type = PageTypeLeafTable => Len(db[p].LeafCells) > 0

\* C3: once a yield has returned false (the consumer broke out of its range
\* loop, or Filter's loop body returned), no further page is read, no further
\* element is yielded to Filter or to the consumer and the predicate is not
\* called again; so a scan aborted at its k-th pull has delivered k elements.
C3_NoWorkAfterDecline ==
    [][(stopped \/ declined) =>
          (reads' = reads /\ out' = out /\ src' = src /\ predCalls' = predCalls)]_vars

\* a TableScan over three rows in a tree of depth three aborted at the 2nd pull
C3_Witness ==
    /\ op = "TableScan" /\ ~filtered /\ pc = "done" /\ stopped
    /\ ValidTableTree
    /\ Cardinality(DOMAIN db) = 5
    /\ Len(out) = 2 /\ ~HasErr(out)
    /\ SumLen(DOMAIN db) = 3

\* C4: after an iterator (a B-tree operation, or Filter) has delivered an
\* error element, no further page is read and no further element is delivered,
\* whatever the consumer answered to the error.
C4_ErrorIsLast ==
    [][(HasErr(out) \/ HasErr(src)) =>
          (reads' = reads /\ out' = out /\ src' = src)]_vars

\* C5: on a valid index B-tree, an IndexSeek consumed to the end has yielded
\* every leaf entry whose key prefix equals the search key, on whatever leaf
\* page the entry lies.
C5_IndexSeekAllLeafMatches ==
    (op = "IndexSeek" /\ pc = "done" /\ ValidIndexTree /\ ~declined) =>
        \A e \in LeafEntrySet :
            Matches(e, key) => \E i \in 1..Len(produced) : produced[i] = Rec(e)

\* C6: every record IndexSeek yields is the payload of a leaf cell, at least
\* one element longer than the search key, whose first len(key) elements
\* compare equal to the key; and the records yielded are the cells from the
\* binary-search position up to the first cell whose prefix differs.
C6_IndexSeekYieldsOnlyMatches ==
    op = "IndexSeek" =>
        /\ \A i \in 1..Len(produced) :
              produced[i].err = "none" =>
                 /\ produced[i].rec \in LeafEntrySet
                 /\ Len(produced[i].rec) >= Len(key) + 1
                 /\ Matches(produced[i].rec, key)
        /\ (stack # <<>> /\ pc \in {"leafloop", "done"}) =>
              LET cells == stack[1].page.LeafIndexCells
                  start == IndexSeekLeafStart(stack[1].page, key)
                  differs == { j \in (start + 1)..Len(cells) :
                                 /\ Len(cells[j].Payload) >= Len(key)
                                 /\ ~Matches(cells[j].Payload, key) }
              IN  \A i \in 1..Len(produced) :
                     \E j \in (start + 1)..Len(cells) :
                        /\ produced[i] = Rec(cells[j].Payload)
                        /\ \A m \in differs : j < m

\* C7: a finished point lookup whose target is not in a valid tree has
\* yielded nothing, neither a record nor an error, for TableSeek (absent
\* rowId) and for IndexSeek (absent key) alike.
C7_NotFoundIsEmpty ==
    /\ (op = "TableSeek" /\ pc = "done" /\ ValidTableTree
           /\ \A c \in LeafCellSet : c.RowID # rowID)
        => produced = <<>>
    /\ (op = "IndexSeek" /\ pc = "done" /\ ValidIndexTree
           /\ \A i \in 1..Len(InOrderEntries(db, index.RootPage)) :
                 ~Matches(InOrderEntries(db, index.RootPage)[i], key))
        => produced = <<>>

\* an IndexSeek that reached a non-empty leaf two levels below the root and
\* found no entry for its key
C7_Witness ==
    /\ op = "IndexSeek" /\ pc = "done" /\ ValidIndexTree
    /\ \A i \in 1..Len(InOrderEntries(db, index.RootPage)) :
          ~Matches(InOrderEntries(db, index.RootPage)[i], key)
    /\ Len(reads) = 3
    /\ stack # <<>> /\ Len(stack[1].page.LeafIndexCells) > 0
    /\ produced = <<>>

\* C8: with a rowid alias column k >= 0, every record TableSeek or TableScan
\* yields comes from a leaf cell, has the cell's rowId at column k, the stored
\* value at every other column, and the stored record's length.
C8_AliasOverwrite ==
    (op \in {"TableSeek", "TableScan"} /\ table.RowIDColumnIndex >= 0) =>
        \A i \in 1..Len(produced) :
            produced[i].err = "none" =>
               \E c \in LeafCellSet :
                  LET rec == produced[i].rec
                  IN  /\ Len(rec) = Len(c.Record)
                      /\ rec[table.RowIDColumnIndex + 1] = IntV(c.RowID)
                      /\ \A j \in 1..Len(rec) :
                            j # table.RowIDColumnIndex + 1 => rec[j] = c.Record[j]

\* TableSeek found a row of a table whose alias column is the second one
C8_Witness ==
    /\ op = "TableSeek" /\ pc = "done" /\ table.RowIDColumnIndex = 1
    /\ Len(produced) = 1 /\ produced[1].err = "none"
    /\ produced[1].rec[2] = IntV(rowID)

\* C9: without an alias column (RowIDColumnIndex = -1) every record TableSeek
\* or TableScan yields is the cell's rowId followed by the stored columns, one
\* longer than the stored record, and both operations build the same record
\* for a cell.
C9_PrependConsistent ==
    (op \in {"TableSeek", "TableScan"} /\ table.RowIDColumnIndex = -1) =>
        \A i \in 1..Len(produced) :
            produced[i].err = "none" =>
               \E c \in LeafCellSet :
                  /\ produced[i].rec = <<IntV(c.RowID)>> \o c.Record
                  /\ Len(produced[i].rec) = Len(c.Record) + 1
                  /\ SeekRecord(table, c) = ScanRecord(table, c)

\* TableScan yielded two rows of a table without alias column
C9_Witness ==
    /\ op = "TableScan" /\ table.RowIDColumnIndex = -1
    /\ Len(produced) = 2 /\ ~HasErr(produced)
    /\ Len(produced[2].rec) = NCols + 1

\* C10: while neither the source nor the predicate has produced an error,
\* Filter has yielded exactly the source records for which the predicate is
\* true, in source order and unmodified, and has called the predicate exactly
\* once per source record; over a TableScan of a valid tree consumed to the
\* end, the source records are all the rows of the table.
C10_FilterSubsequence ==
    (filtered /\ ~HasErr(out)) =>
        /\ out = SelectSeq(src, LAMBDA e : predicate(e.rec).matches)
        /\ predCalls = [i \in 1..Len(src) |-> src[i].rec]
        /\ (op = "TableScan" /\ pc = "done" /\ ValidTableTree /\ ~stopped) =>
              Len(src) = SumLen(DOMAIN db)

\* a filtered full scan of three rows that kept some and dropped some
C10_Witness ==
    /\ filtered /\ op = "TableScan" /\ pc = "done" /\ ~stopped /\ ~HasErr(out)
    /\ Len(src) = 3
    /\ Len(out) \in {1, 2}

\* C11: when the source yields an error or the predicate returns one, Filter
\* yields that error as its last element, exactly once; from then on no
\* element is yielded, no predicate call is made, no element is pulled from
\* the source and no page is read; every record yielded before satisfied the
\* predicate.
FilterErrorState ==
    filtered =>
        /\ \A i \in 1..(Len(out) - 1) : out[i].err = "none"
        /\ \A i \in 1..Len(out) :
             out[i].err = "none" =>
                 predicate(out[i].rec) = [matches |-> TRUE, err |-> FALSE]
        /\ HasErr(src) =>
             /\ out # <<>>
             /\ out[Len(out)] = Err(src[Len(src)].err)
        /\ \A i \in 1..Len(predCalls) :
             predicate(predCalls[i]).err =>
                 /\ i = Len(predCalls)
                 /\ out # <<>>
                 /\ out[Len(out)] = Err("predicate")
                 /\ src[Len(src)] = Rec(predCalls[i])

C11_FilterErrorIsLast ==
    [][/\ FilterErrorState'
       /\ (filtered /\ HasErr(out)) =>
              (src' = src /\ predCalls' = predCalls /\ out' = out
               /\ reads' = reads)]_vars

\* a scan under Filter whose predicate fails on the second row of at least
\* three, after the first row was yielded
C11_Witness ==
    /\ filtered /\ op = "TableScan" /\ pc = "done"
    /\ SumLen(DOMAIN db) >= 3
    /\ Len(out) = 2 /\ out[1].err = "none" /\ out[2] = Err("predicate")
    /\ Len(src) = 2 /\ Len(predCalls) = 2

\* ----------------------------------------------- reference: varint format
Min(a, b) == IF a < b THEN a ELSE b

\* the number of bytes of the varint at the start of data: up to the first
\* of the first eight bytes with a clear high bit, else nine, else all of data
VarintLen(data) ==
    LET stop == { i \in 1..Min(8, Len(data)) : data[i] < 128 }
    IN  IF stop # {} THEN CHOOSE i \in stop : \A l \in stop : i <= l
        ELSE Min(9, Len(data))

\* the low seven bits of each of the first eight bytes of the varint, then
\* all bits of the ninth, one after the other, on 64 bits
VarintValue(data) ==
    LET k == VarintLen(data)
        m == Min(k, 8)
        width == 7 * m + (IF k = 9 THEN 8 ELSE 0)
        bit(t) == IF t <= 7 * m
                  THEN (data[(t - 1) \div 7 + 1] \div (2 ^ (6 - ((t - 1) % 7)))) % 2
                  ELSE (data[9] \div (2 ^ (7 - (t - 7 * m - 1)))) % 2
    IN  [t \in 1..64 |-> IF t <= 64 - width THEN 0 ELSE bit(t - (64 - width))]

\* C12: for every byte sequence readVarint returns without failing, reads
\* only bytes inside the input, and reports as bytesConsumed the number of
\* bytes it examined, at most min(9, len(input)); an input that ends in the
\* middle of a varint gives the value accumulated so far.
C12_ReadVarintTotal ==
    (op = "readVarint" /\ pc = "done") =>
        /\ ~res.panic
        /\ res.n = VarintLen(arg)
        /\ res.n <= Min(9, Len(arg))
        /\ (Len(arg) < 9 /\ \A i \in 1..Len(arg) : arg[i] >= 128) =>
               /\ res.n = Len(arg)
               /\ res.value = VarintValue(arg)

\* an input cut after two continuation bytes
C12_Witness ==
    /\ op = "readVarint" /\ pc = "done"
    /\ arg = <<255, 129>>
    /\ res.n = 2 /\ ~res.panic

\* C13: readVarint stops at the first of the first eight bytes whose high
\* bit is clear and returns the low seven bits of the bytes read, most
\* significant first; after eight bytes with the high bit set, the ninth
\* byte gives all its eight bits; nine 0xff bytes give -1 with length 9,
\* eight 0x80 bytes and 0x00 give 0 with length 9.
C13_ReadVarintValue ==
    (op = "readVarint" /\ pc = "done") =>
        /\ res.value = VarintValue(arg)
        /\ res.n = VarintLen(arg)
        /\ arg = [i \in 1..9 |-> 255] => (res.value = Int64(-1) /\ res.n = 9)
        /\ arg = [i \in 1..8 |-> 128] \o <<0>> =>
               (res.value = Int64(0) /\ res.n = 9)

\* the varint of nine 0xff bytes
C13_Witness ==
    /\ op = "readVarint" /\ pc = "done"
    /\ arg = [i \in 1..9 |-> 255]
    /\ res.value = Ones(64) /\ res.n = 9

\* ------------------------------------------ reference: serial type table
\* bytes of the body that a serial type takes; -1 for the types without a
\* value (10, 11 and the negative ones)
SerialWidth(serialType) ==
    LET N == int(serialType)
    IN  CASE N \in {0, 8, 9} -> 0
          [] N \in {1, 2, 3, 4} -> N
          [] N = 5 -> 6
          [] N \in {6, 7} -> 8
          [] N >= 12 -> (N - 12 - (N % 2)) \div 2
          [] OTHER -> -1

\* the value that a serial type of width w gives to the bytes of its body
SerialValue(serialType, bytes) ==
    LET N == int(serialType)
    IN  CASE N = 0 -> SQLNull
          [] N = 8 -> Int64V(Int64(0))
          [] N = 9 -> Int64V(Int64(1))
          [] N \in 1..6 -> Int64V(SignExtend(BytesBits(bytes)))
          [] N = 7 -> FloatV(BytesBits(bytes))
          [] N >= 12 /\ N % 2 = 0 -> BlobV(bytes)
          [] OTHER -> TextV(bytes)

\* C14: serialTypeToValue agrees with the serial type table: types 0, 8, 9
\* take no byte (NULL, 0, 1); types 1..6 take 1, 2, 3, 4, 6, 8 bytes and
\* give the big-endian two's complement number, sign-extended to 64 bits;
\* type 7 takes 8 bytes; an even N >= 12 gives a blob of (N-12)/2 bytes, an
\* odd N >= 13 a text of (N-13)/2 bytes; types 10, 11 and negative types
\* fail; a body shorter than the width fails; a failure reports 0 bytes.
C14_SerialTypeTable ==
    (op = "serialTypeToValue" /\ pc = "done") =>
        LET w == SerialWidth(arg.serialType)
        IN  IF w = -1 \/ Len(arg.body) < w
            THEN res.err # "none" /\ res.n = 0 /\ res.value = Nil
            ELSE /\ res.err = "none"
                 /\ res.n = w
                 /\ res.value = SerialValue(arg.serialType, SubSeq(arg.body, 1, w))

\* a negative 48-bit integer
C14_Witness ==
    /\ op = "serialTypeToValue" /\ pc = "done"
    /\ arg.serialType = Int64(5) /\ arg.body = <<255, 1, 1, 1, 1, 1>>
    /\ res.err = "none" /\ res.n = 6
    /\ res.value = Int64V(Ones(16) \o BytesBits(arg.body))

\* ------------------------------------------- reference: record format
\* the header length that a payload declares
DeclaredHeaderLen(data) == int(VarintValue(data))

\* the values that take no byte of the body
EmptyValues ==
    {SQLNull, Int64V(Int64(0)), Int64V(Int64(1)), TextV(<<>>), BlobV(<<>>)}

\* C15: ParseRecord fails with an error and returns no record whenever the
\* declared header length is greater than the payload length; a header
\* length equal to the payload length is accepted and leaves an empty body,
\* so that only values without body bytes can be decoded.
C15_HeaderLength ==
    (op = "ParseRecord" /\ pc = "done") =>
        /\ DeclaredHeaderLen(arg) > Len(arg) =>
               (res.err = "header" /\ res.nil /\ res.record = <<>>)
        /\ DeclaredHeaderLen(arg) = Len(arg) =>
               /\ res.err \in {"none", "column"}
               /\ res.err = "none" =>
                      /\ ~res.nil
                      /\ \A i \in 1..Len(res.record) : res.record[i] \in EmptyValues

\* a payload that is all header: size 3, a NULL and the constant 1
C15_Witness ==
    /\ op = "ParseRecord" /\ pc = "done"
    /\ arg = <<3, 0, 9>>
    /\ res.err = "none"
    /\ res.record = <<SQLNull, Int64V(Int64(1))>>

\* the serial types written in a record header, one varint after the other
RECURSIVE HeaderTypes(_)
HeaderTypes(header) ==
    IF header = <<>> THEN <<>>
    ELSE <<VarintValue(header)>>
         \o HeaderTypes(SubSeq(header, VarintLen(header) + 1, Len(header)))

\* the body offset of column i (from 1): the widths of the columns before it
RECURSIVE ColumnOffset(_, _)
ColumnOffset(types, i) ==
    IF i = 1 THEN 0
    ELSE ColumnOffset(types, i - 1) + SerialWidth(types[i - 1])

\* C16: when the body is too short for the columns or a column has a
\* reserved serial type, ParseRecord returns no record and an error naming
\* the first column, in header order, that cannot be decoded; otherwise
\* every column is decoded from the bytes at the offset given by the widths
\* of the columns before it, inside the body.
C16_ColumnErrors ==
    (/\ op = "ParseRecord" /\ pc = "done"
     /\ DeclaredHeaderLen(arg) <= Len(arg)
     /\ DeclaredHeaderLen(arg) >= VarintLen(arg)) =>
        LET types == HeaderTypes(SubSeq(arg, VarintLen(arg) + 1,
                                        DeclaredHeaderLen(arg)))
            body == SubSeq(arg, DeclaredHeaderLen(arg) + 1, Len(arg))
            off(i) == ColumnOffset(types, i)
            width(i) == SerialWidth(types[i])
            bad == { i \in 1..Len(types) :
                       width(i) = -1 \/ off(i) + width(i) > Len(body) }
        IN  IF bad # {}
            THEN /\ res.nil /\ res.record = <<>>
                 /\ res.err \in {"column", "beyond"}
                 /\ res.col + 1 = CHOOSE i \in bad : \A l \in bad : i <= l
            ELSE /\ res.err = "none" /\ ~res.nil
                 /\ res.record =
                      [i \in 1..Len(types) |->
                         SerialValue(types[i],
                                     SubSeq(body, off(i) + 1, off(i) + width(i)))]

\* an 8-bit and a 16-bit column over a body of one byte: the second column
\* (index 1) cannot be decoded
C16_Witness ==
    /\ op = "ParseRecord" /\ pc = "done"
    /\ arg = <<3, 1, 2, 255>>
    /\ res.nil /\ res.err = "column" /\ res.col = 1

\* ------------------------------------------------ reference: value order
\* C17: compareValues and CompareRecords are total preorders: comparing a
\* value (or record) with itself gives 0, exchanging the arguments
\* exchanges the sign, and v <= w, w <= x give v <= x.
C17_TotalPreorder ==
    (op \in {"compareValues", "CompareRecords"} /\ pc = "done") =>
        /\ \A i \in 1..3 : res[<<i, i>>] = 0
        /\ \A i, j \in 1..3 : res[<<i, j>>] = -res[<<j, i>>]
        /\ (res[<<1, 2>>] <= 0 /\ res[<<2, 3>>] <= 0) => res[<<1, 3>>] <= 0

\* The real number that an integer or a float other than NaN stands for:
\* its sign s, whether it is zero, the exponent p of its leading binary
\* digit, and the digits m after the leading one, without trailing zeros.
\* An infinity has an exponent above every finite one.
Real(v) ==
    IF v.tag = "int"
    THEN LET bits == Word(v)
             mag == IF bits[1] = 1 THEN Neg(bits) ELSE bits
             set == { i \in 1..64 : mag[i] = 1 }
             j == CHOOSE i \in set : \A l \in set : i <= l
         IN  IF set = {} THEN [s |-> 0, zero |-> TRUE, p |-> 0, m |-> <<>>]
             ELSE [s |-> bits[1], zero |-> FALSE, p |-> 64 - j,
                   m |-> StripRight(SubSeq(mag, j + 1, 64))]
    ELSE LET x == Float64frombits(Word(v))
             set == { i \in 1..Len(x.m) : x.m[i] = 1 }
             j == CHOOSE i \in set : \A l \in set : i <= l
         IN  IF x.e = 0 /\ x.m = <<>>
             THEN [s |-> 0, zero |-> TRUE, p |-> 0, m |-> <<>>]
             ELSE IF x.e = 2047
             THEN [s |-> x.s, zero |-> FALSE, p |-> 2000, m |-> <<>>]
             ELSE IF x.e = 0
             THEN [s |-> x.s, zero |-> FALSE, p |-> -1022 - j,
                   m |-> SubSeq(x.m, j + 1, Len(x.m))]
             ELSE [s |-> x.s, zero |-> FALSE, p |-> x.e - 1023, m |-> x.m]

LexLess(a, b) ==
    \/ Len(a) < Len(b) /\ a = SubSeq(b, 1, Len(a))
    \/ \E i \in 1..Min(Len(a), Len(b)) :
         a[i] < b[i] /\ SubSeq(a, 1, i - 1) = SubSeq(b, 1, i - 1)

RealMagLess(a, b) == a.p < b.p \/ (a.p = b.p /\ LexLess(a.m, b.m))

RealLess(a, b) ==
    IF a.zero THEN ~b.zero /\ b.s = 0
    ELSE IF b.zero THEN a.s = 1
    ELSE IF a.s # b.s THEN a.s = 1
    ELSE IF a.s = 0 THEN RealMagLess(a, b)
    ELSE RealMagLess(b, a)

IsNaN(v) == v.tag = "float" /\ f64IsNaN(Float64frombits(Word(v)))

TypeOrder(v) ==
    CASE v.tag = "null" -> 0
      [] v.tag \in {"int", "float"} -> 1
      [] v.tag = "text" -> 2
      [] OTHER -> 3

ValueOrder(v, w) ==
    IF TypeOrder(v) # TypeOrder(w)
    THEN (IF TypeOrder(v) < TypeOrder(w) THEN -1 ELSE 1)
    ELSE IF TypeOrder(v) = 0 THEN 0
    ELSE IF TypeOrder(v) = 1
    THEN (IF RealLess(Real(v), Real(w)) THEN -1
          ELSE IF RealLess(Real(w), Real(v)) THEN 1 ELSE 0)
    ELSE (IF LexLess(v.b, w.b) THEN -1 ELSE IF LexLess(w.b, v.b) THEN 1 ELSE 0)

RecordOrder(a, b) ==
    LET diff == { i \in 1..Min(Len(a), Len(b)) : ValueOrder(a[i], b[i]) # 0 }
        first == CHOOSE i \in diff : \A l \in diff : i <= l
    IN  IF diff # {} THEN ValueOrder(a[first], b[first])
        ELSE IF Len(a) < Len(b) THEN -1
        ELSE IF Len(a) > Len(b) THEN 1
        ELSE 0

\* C18: CompareRecords agrees with the reference order: NULL < numbers <
\* text < blob; numbers by their real value, so that the integer 5 equals
\* the float 5.0 and two different integers are never equal; text and blob
\* byte by byte; records position by position, the shorter one first when
\* all shared positions are equal.
C18_ReferenceOrder ==
    /\ (op = "compareValues" /\ pc = "done") =>
           \A i, j \in 1..3 :
               (~IsNaN(arg[i]) /\ ~IsNaN(arg[j])) =>
                   /\ res[<<i, j>>] = ValueOrder(arg[i], arg[j])
                   /\ CompareRecords(<<arg[i]>>, <<arg[j]>>) =
                          RecordOrder(<<arg[i]>>, <<arg[j]>>)
    /\ (op = "CompareRecords" /\ pc = "done") =>
           \A i, j \in 1..3 : res[<<i, j>>] = RecordOrder(arg[i], arg[j])

\* ------------------------------------------------ reference: file header
ValidHeader(data) ==
    Len(data) = HeaderSize /\ SubSeq(data, 1, 16) = HeaderString

\* C19: ParseHeader returns a header only when the input is exactly 100
\* bytes long and starts with the magic string; for any other input it
\* returns an error and no header, and Open then closes the file and
\* returns no database handle.
C19_HeaderValidation ==
    /\ (op = "ParseHeader" /\ pc = "done") =>
           /\ ~res.nil <=> ValidHeader(arg)
           /\ res.nil <=> res.err # "none"
    /\ (op = "Open" /\ pc \in {"done", "read"}) =>
           IF Len(arg) >= HeaderSize /\ ValidHeader(SubSeq(arg, 1, HeaderSize))
           THEN ~res.db.nil /\ res.db.err = "none" /\ ~res.db.closed
           ELSE res.db.nil /\ res.db.err # "none" /\ res.db.closed

\* Open on a file of more than 100 bytes whose magic string has a wrong last
\* byte
C19_Witness ==
    /\ op = "Open" /\ pc = "done"
    /\ Len(arg) > HeaderSize
    /\ SubSeq(arg, 1, 15) = SubSeq(HeaderString, 1, 15) /\ arg[16] # 0
    /\ res.db.nil /\ res.db.err = "parse" /\ res.db.closed

\* C20: the page size is the big-endian 16-bit number at offset 16 of the
\* header, except that 1 stands for 65536; with a page-size field of 1 the
\* buffer length and the offsets of ReadPage are those of pages of 65536
\* bytes.
C20_PageSize65536 ==
    (op = "Open" /\ pc \in {"done", "read"} /\ ~res.db.nil) =>
        LET raw == Uint16(arg, 16)
            size == IF raw = 1 THEN 65536 ELSE raw
        IN  /\ res.db.PageSize = size
            /\ pc = "read" =>
                   /\ res.length = size
                   /\ res.offset = (res.pageNum - 1) * size

\* ------------------------------------------------- reference: page kinds
\* the page kinds the operation in progress can traverse
Traversable ==
    IF op = "IndexSeek" THEN {PageTypeLeafIndex, PageTypeInteriorIndex}
    ELSE {PageTypeLeafTable, PageTypeInteriorTable}

\* the positions in reads of the pages of another kind
UnexpectedReads ==
    { i \in 1..Len(reads) :
        reads[i] \in DOMAIN db /\ db[reads[i]].Type \notin Traversable }

\* the records held by the cells of a page, as stored and as a table
\* operation would hand them out
CellRecordsOf(pg) ==
    { pg.LeafIndexCells[i].Payload : i \in 1..Len(pg.LeafIndexCells) }
    \cup { pg.InteriorIndexCells[i].Payload : i \in 1..Len(pg.InteriorIndexCells) }
    \cup { pg.LeafCells[i].Record : i \in 1..Len(pg.LeafCells) }
    \cup { <<IntV(pg.LeafCells[i].RowID)>> \o pg.LeafCells[i].Record :
             i \in 1..Len(pg.LeafCells) }

\* C21: for every page read whose kind the operation cannot traverse, the
\* operation has yielded exactly one page-kind error, no page that page points
\* to is read afterwards, and no record of its cells is yielded.
C21_UnexpectedPageKind ==
    /\ Cardinality({ j \in 1..Len(produced) : produced[j].err = "pagetype" })
         = Cardinality(UnexpectedReads)
    /\ \A i \in UnexpectedReads :
         /\ \A j \in (i + 1)..Len(reads) : reads[j] \notin ChildrenOf(db[reads[i]])
         /\ \A j \in 1..Len(produced) :
              produced[j].err = "none" =>
                  produced[j].rec \notin CellRecordsOf(db[reads[i]])

\* a finished scan that reached, below the root, an interior page of the
\* index kind with children, and yielded records of other pages
C21_Witness ==
    /\ op = "TableScan" /\ pc = "done"
    /\ \E i \in UnexpectedReads :
         /\ i > 1
         /\ db[reads[i]].Type = PageTypeInteriorIndex
         /\ db[reads[i]].InteriorIndexCells # <<>>
    /\ \E j \in 1..Len(produced) : produced[j].err = "none"

\* C22: every record iterator is finite: whatever the file holds, also a
\* child pointer that leads back to its page or to an ancestor, an iteration
\* whose consumer keeps pulling reaches its end (end of sequence or a last
\* error) after finitely many page reads.
C22_IteratorsFinite == <>(pc = "done")

\* ------------------------------------------ reference: ranging again
IsPrefixOf(a, b) == Len(a) <= Len(b) /\ a = SubSeq(b, 1, Len(a))

RootOf(it) == IF it.op = "IndexSeek" THEN it.index.RootPage ELSE it.table.RootPage

ScanSequence ==
    LET cells == InOrderCells(db, table.RootPage)
    IN  [i \in 1..Len(cells) |-> Rec(RowRecord(table.RowIDColumnIndex, cells[i]))]

\* the iteration started beside the second range
TheOther == IF passes = <<>> THEN Iteration ELSE saved[1]

\* C25: an iteration whose steps are interleaved in any order with those of
\* another iteration over the same Database reads the pages and delivers the
\* elements it reads and delivers when run alone (its first range), and the
\* other iteration, a table operation, delivers the rows of the tree.
C25_SideBySide ==
    saved # <<>> =>
        /\ passes # <<>> =>
             /\ IsPrefixOf(out, passes[1].out)
             /\ IsPrefixOf(reads, passes[1].reads)
             /\ (pc = "done" /\ ~stopped) =>
                    (out = passes[1].out /\ reads = passes[1].reads)
        /\ TheOther.op = "TableScan" =>
             /\ IsPrefixOf(TheOther.out, ScanSequence)
             /\ (TheOther.pc = "done" /\ ~TheOther.stopped) =>
                    TheOther.out = ScanSequence
        /\ TheOther.op = "TableSeek" =>
             IsPrefixOf(TheOther.out,
                        SelectSeq(ScanSequence,
                                  LAMBDA e : e.rec[RowIdCol] = IntV(TheOther.rowID)))

\* two full scans side by side: the second range of one, which has delivered
\* all rows again, and another one that has finished as well
C25_Witness ==
    /\ saved # <<>> /\ passes # <<>>
    /\ op = "TableScan" /\ pc = "done" /\ ~stopped
    /\ Len(out) = MaxRowId
    /\ saved[1].op = "TableScan" /\ saved[1].pc = "done"
    /\ Len(saved[1].out) = MaxRowId


\* ------------------------------------------------ reference: pages read
\* the children of a page in the order of its cells, the right-most last
ChildSeq(pg) ==
    [i \in 1..Len(pg.InteriorCells) |-> pg.InteriorCells[i].LeftChildPageNum]
    \o [i \in 1..Len(pg.InteriorIndexCells) |->
           pg.InteriorIndexCells[i].LeftChildPageNum]
    \o (IF pg.Type \in {PageTypeInteriorTable, PageTypeInteriorIndex}
        THEN <<pg.RightMostPtr>> ELSE <<>>)

\* the pages of the tree under p, each page before the pages below it
RECURSIVE PreOrder(_, _)
PreOrder(d, p) ==
    <<p>> \o Concat([i \in 1..Len(ChildSeq(d[p])) |-> PreOrder(d, ChildSeq(d[p])[i])])

\* reads is one path from the root down to a leaf, no page twice
RootToLeafPath(root) ==
    /\ reads # <<>>
    /\ reads[1] = root
    /\ \A i \in 1..(Len(reads) - 1) :
          \E j \in 1..Len(ChildSeq(db[reads[i]])) :
             ChildSeq(db[reads[i]])[j] = reads[i + 1]
    /\ ChildSeq(db[reads[Len(reads)]]) = <<>>
    /\ \A i, j \in 1..Len(reads) : reads[i] = reads[j] => i = j

\* the pages a scan reads up to and including the leaf that holds the row
\* whose rowId is the value v
ReadsUpToRow(v) ==
    LET order == PreOrder(db, table.RootPage)
        at == CHOOSE i \in 1..Len(order) :
                \E c \in 1..Len(db[order[i]].LeafCells) :
                   IntV(db[order[i]].LeafCells[c].RowID) = v
    IN  SubSeq(order, 1, at)

\* the rowId of the record yielded last
LastRowId == produced[Len(produced)].rec[RowIdCol]

\* C26: page reads are lazy.  An iterator that has not been pulled has read
\* no page; a finished seek on a valid tree has read exactly the pages of one
\* root-to-leaf path, each once; and when a TableScan on a valid tree yields
\* a record, the pages read so far are those of the tree up to and including
\* the leaf holding that record, in depth-first order, each once.
C26_LazyReads ==
    [][ /\ pc = "start" => reads = <<>>
        /\ (op = "TableSeek" /\ pc' = "done" /\ ValidTableTree) =>
               RootToLeafPath(table.RootPage)'
        /\ (op = "IndexSeek" /\ pc' = "done" /\ ValidIndexTree) =>
               RootToLeafPath(index.RootPage)'
        /\ (/\ op = "TableScan" /\ ValidTableTree
            /\ Len(produced') > Len(produced)
            /\ produced'[Len(produced')].err = "none") =>
               reads' = ReadsUpToRow(LastRowId')
      ]_vars

\* a scan of a tree of five pages has yielded a row of its last leaf and
\* has read all five pages
C26_Witness ==
    /\ op = "TableScan" /\ ValidTableTree /\ pc = "leaf"
    /\ Len(reads) = 5
    /\ Top.i > 0
    /\ produced # <<>>
    /\ produced[Len(produced)].err = "none"

\* ----------------------------------------------- reference: page layout
\* a page whose pointers lead to its cells and whose cells fit
WellLaid(d) == \A i \in 1..Len(d.cells) : d.cells[i].ptr = "cell" /\ ~d.cells[i].big

\* the cells laid out in the page described by d, as the operations use them
LaidCells(d, type) ==
    IF d.type # type THEN <<>>
    ELSE [i \in 1..Len(d.cells) |->
            CASE type = PageTypeLeafTable -> [RowID |-> i, Record |-> <<IntV(10 + i)>>]
              [] type = PageTypeInteriorTable -> [LeftChildPageNum |-> 2 + i, Key |-> i]
              [] type = PageTypeLeafIndex -> [Payload |-> <<IntV(i), IntV(10 + i)>>]
              [] OTHER -> [LeftChildPageNum |-> 2 + i,
                           Payload |-> <<IntV(i), IntV(10 + i)>>]]

ExtendsPastEnd(data, at) ==
    \/ at > Len(data)
    \/ LET cd == From(data, at)
           n == VarintLen(cd)
           m == VarintLen(From(cd, n))
       IN  at + n + m + int(VarintValue(cd)) > Len(data)

\* C28: when a cell of a leaf table page extends past the end of the page,
\* by its pointer or by its declared payload size, ParsePage returns an error.
C28_PastEndRejected ==
    (/\ op = "ParsePage" /\ pc = "done"
     /\ arg.type = PageTypeLeafTable
     /\ \E i \in 1..Len(arg.cells) : ExtendsPastEnd(Image(arg), PointerOf(arg, i))) =>
        (~res.panic /\ res.err # "none")

\* C30: ParseRecord returns a record or an error for every payload; it never
\* aborts, whatever header length the payload declares.
C30_ParseRecordTotal ==
    (op = "ParseRecord" /\ pc = "done") => res.err # "panic"
\* payloads of the interior index cells stored anywhere in the file
InteriorEntrySet == { db[p].InteriorIndexCells[i].Payload : <<p, i>> \in
                        { x \in (DOMAIN db) \X (1..MaxEntries) :
                            x[2] <= Len(db[x[1]].InteriorIndexCells) } }

\* C29: on a valid index B-tree whose interior cells hold entries of their
\* own, an IndexSeek consumed to the end has yielded every entry of an
\* interior cell that is longer than the search key and whose key prefix
\* equals it.
C29_IndexSeekInteriorMatches ==
    (op = "IndexSeek" /\ pc = "done" /\ ValidIndexTree /\ ~declined) =>
        \A e \in InteriorEntrySet :
            (Len(e) > Len(key) /\ Matches(e, key)) =>
                \E i \in 1..Len(produced) : produced[i] = Rec(e)
====
